---- MODULE Spec2Model ----
(***************************************************************************)
(* Background job pipeline of Reddit-Mirror-2-Lemmy: the SQLite job table  *)
(* (worker_manager.py), the asyncio worker pools (worker_base.py), the     *)
(* mirror_post handler (mirror_worker.py, auto_mirror.py), the bridge      *)
(* (bridges/reddit_to_lemmy.py) and the mapping cache (db_cache.py).       *)
(*                                                                         *)
(* Scheduling.  Everything of one process runs on one asyncio event loop.  *)
(* A task keeps the loop until it reaches an await that really suspends:   *)
(* asyncio.Queue.get() on an empty queue, asyncio.sleep(d) with d > 0.     *)
(* Queue.put() on an unbounded queue and Queue.get() on a non-empty queue  *)
(* do not suspend, and the mirror_post handler contains no await at all    *)
(* (requests.post, time.sleep), so it blocks the loop while it runs.       *)
(* `cur` names the task that holds the loop; NoTask means the loop is free *)
(* and any ready task may be resumed next.                                 *)
(*                                                                         *)
(* Time.  Every next_run is kept as the number of seconds it lies ahead of *)
(* the current time (0: due, time.time() >= next_run); Tick lets time pass *)
(* and counts every pending next_run down.                                 *)
(***************************************************************************)
EXTENDS Integers, Sequences, FiniteSets, TLC

\* ------------------------------------------------------------------------
\* Bounds of the model
\* ------------------------------------------------------------------------
MaxJobs == 1
MaxInMemory == 2
MaxPosts == 2
HistLen == 3
MaxJobsPair == 2
MaxLogins == 3
MaxRequests == 5
MaxInMemoryDelay == 3
MaxCommentJobs == 2
MaxInMemoryRouting == 3
MaxLoginCalls == 4
MaxAgeDays == 31
MaxSyncComments == 8
MaxFailuresLive == 1

\* ------------------------------------------------------------------------
\* Program constants
\* ------------------------------------------------------------------------
MAX_RETRIES == 5
CONCURRENCY == 2
LOGIN_ATTEMPTS == 5
CM_LOGIN_ATTEMPTS == 5
POST_ATTEMPTS == 5

Sources == {"p1"}
Registered == {"mirror_post"}
Workers == Registered \X (1..CONCURRENCY)
NoTask == <<"none", 0>>
NoPayload == [reddit_id |-> "", reddit_post_id |-> "", lemmy_post_id |-> 0]
NoJob == [id |-> 0, type |-> "", payload |-> NoPayload, retries |-> 0,
          max_retries |-> 0, next_run |-> 0]
Subreddit == "fosscad2"
Outcomes == {"ok", "error", "missing"}

VARIABLES
    phase,        \* "init": constructed, workers registered; "up": start_all runs
    jobs,         \* the jobs table: row id -> row (ids are 1..Len(jobs))
    queue,        \* worker type -> asyncio.Queue of Job objects
    pc,           \* worker task -> "get" | "sleep" | "process" | "exit"
    held,         \* worker task -> the Job it popped (NoJob when none)
    cur,          \* the task that holds the event loop
    posts,        \* the posts table of bridge_cache.db (rows in rowid order)
    comments,     \* the comments table of bridge_cache.db (rows in rowid order)
    lemmy_posts,  \* destination: the posts created so far (the i-th has Lemmy
                  \* id i), each with its source post and the code that created it
    calls,        \* history: job id -> outcomes of its first HistLen handler calls
    allErr,       \* history: job id -> every handler call of it so far raised
    lastOp,       \* history: the operation that made the last step
    ignored,      \* the source posts recorded as permanently ignored
    token_file,   \* lemmy_token_<user>.json: the cached jwt and where now stands
                  \* to its "expires"
    lock_age,     \* login.lock: "none" (no file), "recent" (mtime less than the
                  \* 90 s timeout ago) or "stale"
    logins,       \* the logins Lemmy has granted so far (the n-th returned jwt n)
    caller,       \* process -> its call of get_valid_token
    http,         \* the create-post call in progress and the requests it has sent
    active,       \* BaseWorker.active of the pools; stop_all clears it and sets
                  \* the manager's _stop_event in the same step
    thread,       \* comment_mirror.py: the run of mirror_comments_for_post over
                  \* one post's comments, its maps and the destination comments
    relogin,      \* a login loop that is answered with rate limits: the
                  \* function, its attempt and the waits it has slept so far
    sync          \* reddit_comment_sync.py: where main stands, the db_meta
                  \* flags and the comments the passes created on Lemmy

vars == <<phase, jobs, queue, pc, held, cur, posts, comments, lemmy_posts, calls, allErr, lastOp,
          ignored, token_file, lock_age, logins, caller, http, active, thread, relogin, sync>>

authVars == <<token_file, lock_age, logins, caller, http>>

\* ------------------------------------------------------------------------
\* worker_base.py: the Job dataclass
\* ------------------------------------------------------------------------
\* Job(type=..., payload=...): retries 0, max_retries 5, next_run = time.time()
\* (due at once), id None until it is saved.
Job(type, payload) ==
    [id |-> 0, type |-> type, payload |-> payload, retries |-> 0,
     max_retries |-> MAX_RETRIES, next_run |-> 0]

\* payload.get("reddit_id") or payload.get("reddit_post_id")
RedditId(payload) ==
    IF payload.reddit_id # "" THEN payload.reddit_id ELSE payload.reddit_post_id

\* ------------------------------------------------------------------------
\* worker_manager.py: persistence of the jobs table
\* ------------------------------------------------------------------------
\* INSERT INTO jobs (...) VALUES (..., 'queued', ...); commit.  The table is
\* AUTOINCREMENT and the pipeline deletes no row, so the new id is Len + 1.
save_job_in_progress(tbl, job) ==
    Append(tbl, [type |-> job.type, payload |-> job.payload,
                 retries |-> job.retries, max_retries |-> job.max_retries,
                 next_run |-> job.next_run, status |-> "in_progress"])

save_job(tbl, job) ==
    Append(tbl, [type |-> job.type, payload |-> job.payload,
                 retries |-> job.retries, max_retries |-> job.max_retries,
                 next_run |-> job.next_run, status |-> "queued"])

lastrowid(tbl) == Len(tbl)

\* UPDATE jobs SET status=? WHERE id=?; commit.  Only the status column.
mark_job_status(tbl, job_id, status) ==
    IF job_id \in DOMAIN tbl THEN [tbl EXCEPT ![job_id].status = status] ELSE tbl

\* The Job object load_queued_jobs builds from row i.
RowJob(tbl, i) ==
    [id |-> i, type |-> tbl[i].type, payload |-> tbl[i].payload,
     retries |-> tbl[i].retries, max_retries |-> tbl[i].max_retries,
     next_run |-> tbl[i].next_run]

RECURSIVE LoadFrom(_, _)
LoadFrom(tbl, i) ==
    IF i > Len(tbl) THEN <<>>
    ELSE IF tbl[i].status \in {"queued", "retrying"}
         THEN <<RowJob(tbl, i)>> \o LoadFrom(tbl, i + 1)
         ELSE LoadFrom(tbl, i + 1)

load_retrying_jobs(tbl) ==
    LoadFrom([k \in DOMAIN tbl |->
                 [tbl[k] EXCEPT !.status = IF @ = "queued" THEN "waiting" ELSE @]], 1)

\* SELECT ... FROM jobs WHERE status IN ('queued', 'retrying')
load_queued_jobs(tbl) == LoadFrom(tbl, 1)

\* ------------------------------------------------------------------------
\* db_cache.py: the mapping cache (tables posts and comments)
\* ------------------------------------------------------------------------
\* A table is the sequence of its rows in rowid order.  INSERT OR REPLACE under
\* UNIQUE(source, source_post_id) deletes the row that holds the key, if any,
\* and inserts the new row.  last_synced, written as datetime.utcnow(), is kept
\* as the row's age: the days it lies behind the current time.
save_post_or_ignore(tbl, source, source_post_id, lemmy_id, community) ==
    IF \E k \in DOMAIN tbl : tbl[k].source = source /\ tbl[k].source_id = source_post_id
    THEN tbl
    ELSE Append(tbl, [source |-> source, source_id |-> source_post_id,
                      lemmy_id |-> lemmy_id, community |-> community, last_synced |-> 0])

save_post_replacing_source(tbl, source, source_post_id, lemmy_id, community) ==
    Append(SelectSeq(tbl, LAMBDA r: ~(r.source = source)),
           [source |-> source, source_id |-> source_post_id,
            lemmy_id |-> lemmy_id, community |-> community, last_synced |-> 0])

save_post(tbl, source, source_post_id, lemmy_id, community) ==
    Append(SelectSeq(tbl, LAMBDA r: ~(r.source = source /\ r.source_id = source_post_id)),
           [source |-> source, source_id |-> source_post_id,
            lemmy_id |-> lemmy_id, community |-> community, last_synced |-> 0])

\* SELECT lemmy_id FROM posts WHERE source = ? AND source_post_id = ?;
\* fetchone(): the first matching row, None ("") when there is none.
get_lemmy_post_id(tbl, source, source_post_id) ==
    LET hits == SelectSeq(tbl, LAMBDA r: r.source = source /\ r.source_id = source_post_id)
    IN IF hits = <<>> THEN "" ELSE hits[1].lemmy_id

\* INSERT OR REPLACE INTO comments under UNIQUE(source, source_comment_id).
save_comment(tbl, source, source_comment_id, lemmy_id, parent_source_id, parent_lemmy_id) ==
    Append(SelectSeq(tbl, LAMBDA r: ~(r.source = source /\ r.source_id = source_comment_id)),
           [source |-> source, source_id |-> source_comment_id, lemmy_id |-> lemmy_id,
            parent_source_id |-> parent_source_id, parent_lemmy_id |-> parent_lemmy_id,
            last_synced |-> 0])

\* SELECT lemmy_id FROM comments WHERE source = ? AND source_comment_id = ?
get_lemmy_comment_id(tbl, source, source_comment_id) ==
    LET hits == SelectSeq(tbl, LAMBDA r: r.source = source /\ r.source_id = source_comment_id)
    IN IF hits = <<>> THEN "" ELSE hits[1].lemmy_id

\* SQLite values with their storage class; v is a time in days relative to
\* the current time.  strftime('%s', x) returns TEXT; a Python float is bound
\* as REAL.
SqlText(v) == [class |-> "text", v |-> v]
SqlReal(v) == [class |-> "real", v |-> v]

SqlLessNumeric(a, b) == a.v < b.v

\* a < b in SQLite when neither operand has a column affinity (a function
\* result against a bound parameter): no conversion is made, and an INTEGER or
\* REAL value is less than any TEXT value.  Two values of one class compare by
\* value.
SqlLess(a, b) ==
    IF a.class = b.class THEN a.v < b.v ELSE a.class = "real"

\* purge_old(days): cutoff = utcnow().timestamp() - days * 86400;
\* DELETE FROM <table> WHERE strftime('%s', last_synced) < cutoff.
PurgeTable(tbl, days) ==
    SelectSeq(tbl, LAMBDA r: ~SqlLess(SqlText(0 - r.last_synced), SqlReal(0 - days)))

\* Time passes: every row of the table gets d days older.
AgeTable(tbl, d) == [k \in DOMAIN tbl |-> [tbl[k] EXCEPT !.last_synced = @ + d]]

\* ------------------------------------------------------------------------
\* auto_mirror.py: mirror_post_to_lemmy, the handler of mirror_post jobs
\* ------------------------------------------------------------------------
\* UPDATE jobs SET status='skipped' WHERE type='mirror_post'
\*   AND json_extract(payload, '$.reddit_post_id') = ?
RECURSIVE MarkSkippedUpTo(_, _, _)
MarkSkippedUpTo(tbl, reddit_id, n) ==
    IF n = 0 THEN tbl
    ELSE LET rest == MarkSkippedUpTo(tbl, reddit_id, n - 1)
         IN IF tbl[n].type = "mirror_post" /\ tbl[n].payload.reddit_post_id = reddit_id
            THEN [rest EXCEPT ![n].status = "skipped"] ELSE rest

MarkSkipped(tbl, reddit_id) == MarkSkippedUpTo(tbl, reddit_id, Len(tbl))

\* A row inserted without max_retries and next_run: the column default 5 and
\* NULL, which the worker reads as "due now".
PlainRow(type, payload) ==
    [type |-> type, payload |-> payload, retries |-> 0,
     max_retries |-> MAX_RETRIES, next_run |-> 0, status |-> "queued"]

\* Lines 835-865: insert a mirror_comment job unless one exists whose payload
\* has reddit_id = the post.
EnqueueCommentJob(tbl, reddit_id, lemmy_id) ==
    IF \E i \in DOMAIN tbl :
          tbl[i].type = "mirror_comment" /\ tbl[i].payload.reddit_id = reddit_id
    THEN tbl
    ELSE Append(tbl, PlainRow("mirror_comment",
                 [reddit_id |-> reddit_id, reddit_post_id |-> "",
                  lemmy_post_id |-> lemmy_id]))

\* The handler, by what the source and the destination answer:
\*   "missing": fetch_reddit_submission returns None: the rows are marked
\*              skipped and the handler returns normally;
\*   "error":   an exception before a post exists (login, community lookup,
\*              a failed create): nothing is written, the exception propagates;
\*   "ok":      create_lemmy_post returns the new Lemmy id, db.save_post is
\*              called as save_post(reddit_id, str(lemmy_id), subreddit), and
\*              the comment job is inserted.
\* A payload with neither reddit_id nor reddit_post_id raises ValueError before
\* anything else, whatever the source and the destination would answer.
\* It never reads the mapping cache.  The result is the new state of the three
\* stores and whether the handler raised.
mirror_post_to_lemmy(payload, outcome, jobsTbl, postsTbl, dest) ==
    LET reddit_id == RedditId(payload)
        lemmy_id == Len(dest) + 1
    IN CASE reddit_id = "" ->
              [jobs |-> jobsTbl, posts |-> postsTbl, dest |-> dest, raised |-> TRUE]
         [] outcome = "missing" ->
              [jobs |-> MarkSkipped(jobsTbl, reddit_id), posts |-> postsTbl,
               dest |-> dest, raised |-> FALSE]
         [] outcome = "error" ->
              [jobs |-> jobsTbl, posts |-> postsTbl, dest |-> dest, raised |-> TRUE]
         [] OTHER ->
              [jobs |-> EnqueueCommentJob(jobsTbl, reddit_id, lemmy_id),
               posts |-> save_post(postsTbl, reddit_id, ToString(lemmy_id), Subreddit, ""),
               dest |-> Append(dest, [reddit_id |-> reddit_id, via |-> "job"]),
               raised |-> FALSE]

\* ------------------------------------------------------------------------
\* worker_base.py: BaseWorker
\* ------------------------------------------------------------------------
\* _handle_failure: retries += 1; beyond max_retries the job is marked failed,
\* otherwise next_run = time.time() + 2 ** retries, the row is marked queued
\* and the same Job object is put back on the worker's queue.
RetryDelayBase3(retries) == 3 ^ retries

RetryDelay(retries) == 2 ^ retries

\* The longest delay a job can be given: no separate cap is configured, the
\* delay stops growing because the retries stop at max_retries, which is the
\* dataclass and column default for every job the code creates.
RetryCap == 2 ^ MAX_RETRIES

\* The delays _handle_failure can give a job that has failed `retries` times:
\* delay = 2 ** job.retries has no random term, so there is one.
RetryDelays(retries) == {RetryDelay(retries)}

handle_failure(job, jobsTbl, q) ==
    LET r == job.retries + 1
    IN IF r > job.max_retries
       THEN [jobs |-> mark_job_status(jobsTbl, job.id, "failed"), queue |-> q,
             job |-> [job EXCEPT !.retries = r]]
       ELSE LET j == [job EXCEPT !.retries = r, !.next_run = RetryDelay(r)]
            IN [jobs |-> mark_job_status(jobsTbl, job.id, "queued"),
                queue |-> Append(q, j), job |-> j]

WorkerDbShared(w) == active

\* The connection a worker task writes job statuses through is open: each
\* _worker_loop builds a WorkerManager of its own (manager = WorkerManager()),
\* whose connection nothing closes; stop_all closes the connection of the
\* manager it is called on.
WorkerDbOpen(w) == TRUE

\* mark_job_status catches every exception: on a closed connection the
\* UPDATE fails, is logged, and the table stays as it was.
WorkerWrite(w, before, after) == IF WorkerDbOpen(w) THEN after ELSE before

\* Every Job object the process holds in memory: queued or popped by a worker.
RECURSIVE SeqToSet(_)
SeqToSet(s) == IF s = <<>> THEN {} ELSE {Head(s)} \cup SeqToSet(Tail(s))

InMemory ==
    UNION {SeqToSet(queue[t]) : t \in DOMAIN queue}
        \cup {held[w] : w \in {v \in DOMAIN pc : pc[v] \in {"sleep", "process"}}}

RECURSIVE SumLen(_, _)
SumLen(q, T) ==
    IF T = {} THEN 0
    ELSE LET t == CHOOSE x \in T : TRUE IN Len(q[t]) + SumLen(q, T \ {t})

\* The number of Job objects in memory when the queues are q.
NumInMemory(q) ==
    SumLen(q, DOMAIN q) + Cardinality({w \in DOMAIN pc : pc[w] \in {"sleep", "process"}})

\* ------------------------------------------------------------------------
\* utils.py: the token cache shared by the processes of the bridge
\* ------------------------------------------------------------------------
\* A jwt is named by the number of the login that returned it.  The token
\* file holds the jwt and its "expires" (now + 4 h when written), of which the
\* code asks two things: is it still ahead of now, and if not, is it less than
\* 120 s behind.  expiry is "ahead", "recent" (behind by less than 120 s) or
\* "old".  No file: jwt 0.  The sleeps of the code (5 s waiting for another
\* process, 15 * attempt and 3 s between login attempts) take an unknown part
\* of these spans: a sleeping call may go on at any later step.
Procs == {1, 2}
NoToken == [jwt |-> 0, expiry |-> "old"]
\* Lemmy's answers to the login request: 200 with a jwt in the body, 200
\* without one, 429 (or rate_limit_error in the text), and 500 for every
\* other failure.
OkWithoutJwt == 0 - 200
Responses == {200, OkWithoutJwt, 429, 500}

LoginSucceededOnAnyAnswer(status) == status # 429

\* r.status_code == 200 and data.get("jwt")
LoginSucceeded(status) == status = 200

\* A process's call: where it stands, the force argument, the login attempt
\* of refresh_token's loop, and, for the properties, the cached jwt, whether
\* its expiry was still ahead and the login count when the call began,
\* whether the call sent a login request itself, how many it sent and the
\* answer to the last one (0 for none), and what it returned.
Idle ==
    [pc |-> "idle", force |-> FALSE, attempt |-> 0,
     startJwt |-> 0, startFresh |-> FALSE, startLogins |-> 0, sent |-> FALSE,
     requests |-> 0, last |-> 0, result |-> 0]

UnexpiredOrRecent(tok) == tok.jwt # 0 /\ tok.expiry \in {"ahead", "recent"}

\* jwt and expiry and datetime.utcnow() < datetime.fromisoformat(expiry)
Unexpired(tok) == tok.jwt # 0 /\ tok.expiry = "ahead"

\* acquire_token_lock(timeout=90): False when login.lock exists and is younger
\* than the timeout; otherwise the file is touched and the answer is True.
acquire_token_lock(lock) ==
    IF lock = "recent"
    THEN [ok |-> FALSE, lock |-> lock]
    ELSE [ok |-> TRUE, lock |-> "recent"]

Returned(c, jwt) == [c EXCEPT !.pc = "done", !.result = jwt]

\* get_valid_token(force=...) up to its first sleep or to the call of
\* refresh_token: the cached token is returned when it has not expired; a
\* token expired for less than 120 s while another process holds the login
\* lock makes the call sleep 5 s.
get_valid_token(p, force) ==
    /\ caller[p].pc = "idle"
    /\ LET c == [Idle EXCEPT !.force = force,
                             !.startJwt = token_file.jwt,
                             !.startFresh = (token_file.jwt # 0 /\ token_file.expiry = "ahead"),
                             !.startLogins = logins]
           lk == acquire_token_lock(lock_age)
       IN IF ~force /\ token_file.jwt # 0
          THEN IF Unexpired(token_file)
               THEN /\ caller' = [caller EXCEPT ![p] = Returned(c, token_file.jwt)]
                    /\ lock_age' = lock_age
               ELSE IF token_file.expiry = "recent"
                    THEN /\ lock_age' = lk.lock
                         /\ caller' = [caller EXCEPT ![p] =
                                IF lk.ok THEN [c EXCEPT !.pc = "refresh"]
                                ELSE [c EXCEPT !.pc = "wait"]]
                    ELSE /\ caller' = [caller EXCEPT ![p] = [c EXCEPT !.pc = "refresh"]]
                         /\ lock_age' = lock_age
          ELSE /\ caller' = [caller EXCEPT ![p] = [c EXCEPT !.pc = "refresh"]]
               /\ lock_age' = lock_age
    /\ UNCHANGED <<token_file, logins>>
    /\ UNCHANGED <<phase, jobs, queue, pc, held, cur, posts, comments, lemmy_posts, calls,
                   allErr, lastOp, ignored, http, active, thread, relogin, sync>>

\* After time.sleep(5): the token file is read again; a fresh token is
\* returned, otherwise the call goes on to refresh_token.
reread_token(p) ==
    /\ caller[p].pc = "wait"
    /\ caller' = [caller EXCEPT ![p] =
           IF Unexpired(token_file) THEN Returned(@, token_file.jwt)
           ELSE [@ EXCEPT !.pc = "refresh"]]
    /\ UNCHANGED <<token_file, lock_age, logins>>
    /\ UNCHANGED <<phase, jobs, queue, pc, held, cur, posts, comments, lemmy_posts, calls,
                   allErr, lastOp, ignored, http, active, thread, relogin, sync>>

\* refresh_token before its login loop: when the lock is refused and the
\* cached token has not expired the cached token is returned; in every other
\* case the call goes on to log in.
refresh_token(p) ==
    /\ caller[p].pc = "refresh"
    /\ LET lk == acquire_token_lock(lock_age)
       IN /\ lock_age' = lk.lock
          /\ caller' = [caller EXCEPT ![p] =
                 IF ~lk.ok /\ Unexpired(token_file) THEN Returned(@, token_file.jwt)
                 ELSE [@ EXCEPT !.pc = "post", !.attempt = 1]]
    /\ UNCHANGED <<token_file, logins>>
    /\ UNCHANGED <<phase, jobs, queue, pc, held, cur, posts, comments, lemmy_posts, calls,
                   allErr, lastOp, ignored, http, active, thread, relogin, sync>>

\* One pass of the loop "for attempt in range(1, 6)": the login request and
\* Lemmy's answer.  200: the jwt is written with expires = now + 4 h and
\* returned.  429: sleep 15 * attempt, next attempt.  Anything else raises
\* inside the try, is logged, and the loop goes on after 3 seconds.
login_attempt(p, status) ==
    /\ caller[p].pc = "post"
    /\ caller[p].attempt <= LOGIN_ATTEMPTS
    /\ IF LoginSucceeded(status)
       THEN /\ logins < MaxLogins
            /\ logins' = logins + 1
            /\ token_file' = [jwt |-> logins + 1, expiry |-> "ahead"]
            /\ caller' = [caller EXCEPT ![p] =
                   Returned([@ EXCEPT !.sent = TRUE, !.requests = @ + 1,
                                      !.last = status], logins + 1)]
       ELSE /\ UNCHANGED <<token_file, logins>>
            /\ caller' = [caller EXCEPT ![p] =
                   [@ EXCEPT !.sent = TRUE, !.requests = @ + 1, !.last = status,
                             !.attempt = @ + 1]]
    /\ UNCHANGED lock_age
    /\ UNCHANGED <<phase, jobs, queue, pc, held, cur, posts, comments, lemmy_posts, calls,
                   allErr, lastOp, ignored, http, active, thread, relogin, sync>>

\* The loop is over without a token: RuntimeError.
login_failed(p) ==
    /\ caller[p].pc = "post"
    /\ caller[p].attempt > LOGIN_ATTEMPTS
    /\ caller' = [caller EXCEPT ![p] = [@ EXCEPT !.pc = "raised"]]
    /\ UNCHANGED <<token_file, lock_age, logins>>
    /\ UNCHANGED <<phase, jobs, queue, pc, held, cur, posts, comments, lemmy_posts, calls,
                   allErr, lastOp, ignored, http, active, thread, relogin, sync>>

\* The caller has its token (or its exception) and may call again.
token_call_over(p) ==
    /\ caller[p].pc \in {"done", "raised"}
    /\ caller' = [caller EXCEPT ![p] = Idle]
    /\ UNCHANGED <<token_file, lock_age, logins>>
    /\ UNCHANGED <<phase, jobs, queue, pc, held, cur, posts, comments, lemmy_posts, calls,
                   allErr, lastOp, ignored, http, active, thread, relogin, sync>>

\* Time passes: the lock file gets 90 s old.
LockAges ==
    /\ lock_age = "recent"
    /\ lock_age' = "stale"
    /\ UNCHANGED <<token_file, logins, caller>>
    /\ UNCHANGED <<phase, jobs, queue, pc, held, cur, posts, comments, lemmy_posts, calls,
                   allErr, lastOp, ignored, http, active, thread, relogin, sync>>

\* Time passes: now reaches the token's "expires", and later lies 120 s behind.
TokenAges ==
    /\ token_file.jwt # 0
    /\ token_file.expiry \in {"ahead", "recent"}
    /\ token_file' = [token_file EXCEPT !.expiry =
                          IF @ = "ahead" THEN "recent" ELSE "old"]
    /\ UNCHANGED <<lock_age, logins, caller>>
    /\ UNCHANGED <<phase, jobs, queue, pc, held, cur, posts, comments, lemmy_posts, calls,
                   allErr, lastOp, ignored, http, active, thread, relogin, sync>>

NextToken ==
    \/ \E p \in Procs, force \in BOOLEAN : get_valid_token(p, force)
    \/ \E p \in Procs : reread_token(p)
    \/ \E p \in Procs : refresh_token(p)
    \/ \E p \in Procs, status \in Responses : login_attempt(p, status)
    \/ \E p \in Procs : login_failed(p)
    \/ \E p \in Procs : token_call_over(p)
    \/ LockAges
    \/ TokenAges

\* ------------------------------------------------------------------------
\* Creating a post on Lemmy: LemmyClient.create_post (destinations/
\* lemmy_client.py) and create_lemmy_post (auto_mirror.py)
\* ------------------------------------------------------------------------
\* Lemmy's answers to POST /api/v3/post: 200, 401, 400 with rate_limit in the
\* text, and 500 for every other failure.
PostStatuses == {200, 401, 400, 500}

\* No call in progress.  During a call: the function, where it stands, the
\* attempt of its loop, the statuses received so far, the token refreshes made
\* and the number of the request that was first answered 401 (0: none).
NoCall ==
    [fn |-> "none", pc |-> "idle", attempt |-> 0, responses |-> <<>>,
     refreshes |-> 0, first401 |-> 0]

pipeAndTokenVars ==
    <<phase, jobs, queue, pc, held, cur, posts, comments, lemmy_posts, calls, allErr, lastOp,
      ignored, token_file, lock_age, logins, caller, active, thread, relogin, sync>>

Received(h, status) ==
    [h EXCEPT !.responses = Append(@, status),
              !.first401 = IF @ = 0 /\ status = 401 THEN Len(h.responses) + 1 ELSE @]

\* A caller enters one of the two functions.
create_begin(fn) ==
    /\ http.pc \in {"idle", "returned", "raised"}
    /\ http' = [NoCall EXCEPT !.fn = fn, !.pc = "request", !.attempt = 1]
    /\ UNCHANGED pipeAndTokenVars

\* LemmyClient.create_post, one pass of "for attempt in range(1, 6)": the
\* request and its answer.  401 on attempt 1: self._refresh_token(), continue.
\* 400 rate_limit: sleep, continue.  Any other failure: continue.  200:
\* return the post id.  After the fifth pass: RuntimeError.
create_post(status) ==
    /\ http.fn = "LemmyClient.create_post"
    /\ http.pc = "request"
    /\ Len(http.responses) < MaxRequests
    /\ LET h == Received(http, status)
           next == IF http.attempt = POST_ATTEMPTS
                   THEN [h EXCEPT !.pc = "raised"]
                   ELSE [h EXCEPT !.attempt = @ + 1]
       IN http' = IF status = 200 THEN [h EXCEPT !.pc = "returned"]
                  ELSE IF status = 401 /\ http.attempt = 1
                       THEN [next EXCEPT !.refreshes = @ + 1]
                       ELSE next
    /\ UNCHANGED pipeAndTokenVars

\* create_lemmy_post, the request at the top of "while True": 401:
\* lemmy_login(force=True) and one immediate retry; 400 rate_limit: sleep and
\* loop; any other failure: RuntimeError; 200: return the post id.
create_lemmy_post(status) ==
    /\ http.fn = "create_lemmy_post"
    /\ http.pc = "request"
    /\ Len(http.responses) < MaxRequests
    /\ LET h == Received(http, status)
       IN http' = CASE status = 200 -> [h EXCEPT !.pc = "returned"]
                    [] status = 401 -> [h EXCEPT !.pc = "retry", !.refreshes = @ + 1]
                    [] status = 400 -> [h EXCEPT !.attempt = @ + 1]
                    [] OTHER -> [h EXCEPT !.pc = "raised"]
    /\ UNCHANGED pipeAndTokenVars

\* create_lemmy_post, the retry after the refresh: its answer is handled by
\* the same tests below, without the 401 branch.
create_lemmy_post_retry(status) ==
    /\ http.fn = "create_lemmy_post"
    /\ http.pc = "retry"
    /\ Len(http.responses) < MaxRequests
    /\ LET h == Received(http, status)
       IN http' = CASE status = 200 -> [h EXCEPT !.pc = "returned"]
                    [] status = 400 -> [h EXCEPT !.pc = "request", !.attempt = @ + 1]
                    [] OTHER -> [h EXCEPT !.pc = "raised"]
    /\ UNCHANGED pipeAndTokenVars

NextCreate ==
    \/ \E fn \in {"LemmyClient.create_post", "create_lemmy_post"} : create_begin(fn)
    \/ \E status \in PostStatuses : create_post(status)
    \/ \E status \in PostStatuses : create_lemmy_post(status)
    \/ \E status \in PostStatuses : create_lemmy_post_retry(status)

\* ------------------------------------------------------------------------
\* comment_mirror.py: mirroring the comment thread of one mapped post
\* ------------------------------------------------------------------------
\* submission.comments.list() of the post: every comment with its id and the
\* id of its parent comment ("" for a top-level comment, whose parent_id is
\* the t3_ post); a parent comes before its replies.
SubmissionComments ==
    <<[id |-> "c1", parent |-> ""], [id |-> "c2", parent |-> "c1"],
      [id |-> "c3", parent |-> "c2"], [id |-> "c4", parent |-> ""]>>

ThreadIds == {SubmissionComments[k].id : k \in DOMAIN SubmissionComments}

\* parent_reddit_id(c): the parent comment of a source comment, "" for none.
parent_reddit_id(id) ==
    LET k == CHOOSE n \in DOMAIN SubmissionComments : SubmissionComments[n].id = id
    IN SubmissionComments[k].parent

\* No run is under way (pos 0), comment_map.json has no entry for the post
\* (a dict without a key reads 0 here, as .get() gives None), the destination
\* post has no comment.  The n-th comment created gets Lemmy id n.
NoRun ==
    [pos |-> 0,
     per_post_map |-> [c \in ThreadIds |-> 0],
     temp_parent_map |-> [c \in ThreadIds |-> 0],
     lemmy_comments |-> <<>>]

bridgeVars ==
    <<phase, jobs, queue, pc, held, cur, posts, comments, lemmy_posts, calls, allErr, lastOp,
      ignored, token_file, lock_age, logins, caller, http, active, sync>>

\* mirror_comments_for_post up to its loop: temp_parent_map = {**per_post_map}.
mirror_comments_for_post ==
    /\ thread.pos = 0
    /\ thread' = [thread EXCEPT !.pos = 1, !.temp_parent_map = thread.per_post_map]
    /\ UNCHANGED <<bridgeVars, relogin>>

\* post_lemmy_comment(jwt, post_id, content, parent_id): the payload carries
\* parent_id only when it is not None; the id of the created comment is
\* returned, None when Lemmy refused or the three attempts failed.
post_lemmy_comment(dest, source_id, parent_id, answer) ==
    IF answer = "ok"
    THEN [dest |-> Append(dest, [source |-> source_id, parent_id |-> parent_id]),
          cid |-> Len(dest) + 1]
    ELSE [dest |-> dest, cid |-> 0]

\* One pass of the loop over submission.comments.list(): a comment already in
\* per_post_map is skipped; another is posted under
\* temp_parent_map.get(parent_reddit_id(c)) and, when an id came back, entered
\* in both maps.  After the last comment the function returns.
mirror_next_comment(answer) ==
    /\ thread.pos \in DOMAIN SubmissionComments
    /\ LET c == SubmissionComments[thread.pos]
           next == IF thread.pos = Len(SubmissionComments) THEN 0 ELSE thread.pos + 1
           parent_lemmy_id ==
               IF parent_reddit_id(c.id) = "" THEN 0
               ELSE thread.temp_parent_map[parent_reddit_id(c.id)]
           r == post_lemmy_comment(thread.lemmy_comments, c.id, parent_lemmy_id, answer)
       IN IF thread.per_post_map[c.id] # 0
          THEN /\ answer = "ok"
               /\ thread' = [thread EXCEPT !.pos = next]
          ELSE thread' =
                 [pos |-> next,
                  per_post_map |->
                      IF r.cid # 0 THEN [thread.per_post_map EXCEPT ![c.id] = r.cid]
                      ELSE thread.per_post_map,
                  temp_parent_map |->
                      IF r.cid # 0 THEN [thread.temp_parent_map EXCEPT ![c.id] = r.cid]
                      ELSE thread.temp_parent_map,
                  lemmy_comments |-> r.dest]
    /\ UNCHANGED <<bridgeVars, relogin>>

NextThread ==
    \/ mirror_comments_for_post
    \/ \E answer \in {"ok", "refused"} : mirror_next_comment(answer)

\* ------------------------------------------------------------------------
\* The login loops under rate limiting: utils.refresh_token,
\* auto_mirror.lemmy_login and comment_mirror.lemmy_login
\* ------------------------------------------------------------------------
\* Each function sends the login request, and on a rate-limit answer sleeps
\* and sends it again.  attempt is the function's own loop variable:
\* range(1, 6) in utils, range(5) in comment_mirror; auto_mirror has no loop
\* but calls itself again, which is counted from 1 here.  RetryAfter is the
\* Retry-After header of a rate-limit answer in seconds, 0 when there is none.
LoginFunctions == {"utils", "auto_mirror", "comment_mirror"}
RetryAfter == {0, 20, 200}
NoLogin == [fn |-> "", attempt |-> 0, waits |-> <<>>]

FirstAttempt(fn) == IF fn = "comment_mirror" THEN 0 ELSE 1

LastAttempt(fn) ==
    IF fn = "utils" THEN LOGIN_ATTEMPTS
    ELSE IF fn = "comment_mirror" THEN CM_LOGIN_ATTEMPTS - 1
    ELSE MaxLoginCalls

\* The seconds slept after a rate-limit answer to the given attempt:
\* 15 * attempt (utils), 30 (auto_mirror), 120 + attempt * 30 (comment_mirror,
\* after which the 60 s since LAST_LOGIN_TIME have passed as well).
WaitTime(fn, attempt) ==
    IF fn = "utils" THEN 15 * attempt
    ELSE IF fn = "auto_mirror" THEN 30
    ELSE 120 + attempt * 30

bridgeAndThreadVars ==
    <<phase, jobs, queue, pc, held, cur, posts, comments, lemmy_posts, calls, allErr, lastOp,
      ignored, token_file, lock_age, logins, caller, http, active, thread, sync>>

\* The function is called and is about to send its first login request.
login_begin(fn) ==
    /\ relogin.fn = ""
    /\ relogin' = [fn |-> fn, attempt |-> FirstAttempt(fn), waits |-> <<>>]
    /\ UNCHANGED bridgeAndThreadVars

\* Lemmy answers the request with a rate limit: the function sleeps WaitTime
\* and goes on to its next attempt.  No function reads the headers of the
\* answer.
login_rate_limited(retry_after) ==
    /\ relogin.fn # ""
    /\ relogin.attempt <= LastAttempt(relogin.fn)
    /\ relogin' = [relogin EXCEPT
                     !.attempt = @ + 1,
                     !.waits = Append(@, [wait |-> WaitTime(relogin.fn, relogin.attempt),
                                          retry_after |-> retry_after])]
    /\ UNCHANGED bridgeAndThreadVars

\* The call is over: Lemmy answered with a token or with another error, or
\* the attempts ran out (RuntimeError).
login_over ==
    /\ relogin.fn # ""
    /\ relogin' = NoLogin
    /\ UNCHANGED bridgeAndThreadVars

NextLogin ==
    \/ \E fn \in LoginFunctions : login_begin(fn)
    \/ \E retry_after \in RetryAfter : login_rate_limited(retry_after)
    \/ login_over

\* ------------------------------------------------------------------------
\* reddit_comment_sync.py: the state of the comment sync process
\* ------------------------------------------------------------------------
\* main has not yet tested is_first_run, db_meta holds no flag, the passes
\* have created no comment on Lemmy (the n-th created gets Lemmy id n).
NoSync == [pc |-> "start", db_meta |-> {}, lemmy_comments |-> <<>>]

\* ------------------------------------------------------------------------
\* Initial state: the manager is constructed, the workers of the given types
\* are registered, the databases are empty, nothing is posted on the
\* destination.
\* ------------------------------------------------------------------------
TasksOneMore(registered) == registered \X (1..CONCURRENCY + 1)

\* BaseWorker.start: one _worker_loop task per i in range(self.concurrency),
\* for every registered pool.
Tasks(registered) == registered \X (1..CONCURRENCY)

InitWith(registered) ==
    /\ phase = "init"
    /\ jobs = <<>>
    /\ queue = [t \in registered |-> <<>>]
    /\ pc = [w \in Tasks(registered) |-> "get"]
    /\ held = [w \in Tasks(registered) |-> NoJob]
    /\ cur = NoTask
    /\ posts = <<>>
    /\ comments = <<>>
    /\ lemmy_posts = <<>>
    /\ calls = <<>>
    /\ allErr = <<>>
    /\ lastOp = [op |-> "init", id |-> 0, retries |-> 0]
    /\ ignored = {}
    /\ token_file = NoToken
    /\ lock_age = "none"
    /\ logins = 0
    /\ caller = [p \in Procs |-> Idle]
    /\ http = NoCall
    /\ active = TRUE
    /\ thread = NoRun
    /\ relogin = NoLogin
    /\ sync = NoSync

Init == InitWith(Registered)

Other == [op |-> "other", id |-> 0, retries |-> 0]

\* The rows of one job type.
NumJobsOf(job_type) == Cardinality({i \in DOMAIN jobs : jobs[i].type = job_type})

\* Rows created by the enqueue paths (the handler's comment rows not counted).
NumPostJobs == NumJobsOf("mirror_post")

\* calls grows with the table: a new row has no handler invocation yet.
RECURSIVE PadCalls(_, _)
PadCalls(c, tbl) == IF Len(c) >= Len(tbl) THEN c ELSE PadCalls(Append(c, <<>>), tbl)

RECURSIVE PadErr(_, _)
PadErr(c, tbl) == IF Len(c) >= Len(tbl) THEN c ELSE PadErr(Append(c, TRUE), tbl)

\* The payloads callers enqueue for a post: enqueue_post uses the key
\* reddit_id, the poller and the bridge the key reddit_post_id.
PostPayloads ==
    {[reddit_id |-> s, reddit_post_id |-> "", lemmy_post_id |-> 0] : s \in Sources}
        \cup {[reddit_id |-> "", reddit_post_id |-> s, lemmy_post_id |-> 0] : s \in Sources}

\* ------------------------------------------------------------------------
\* worker_manager.py: enqueue
\* ------------------------------------------------------------------------
\* enqueue_job: ValueError unless the type is registered; save_job, then
\* worker.enqueue(job) (Queue.put on an unbounded queue: no suspension).
EnqueueJobUpTo(job_type, payload, maxJobs) ==
    /\ cur = NoTask
    /\ job_type \in DOMAIN queue
    /\ NumJobsOf(job_type) < maxJobs
    /\ NumInMemory(queue) < MaxInMemory
    /\ LET tbl == save_job(jobs, Job(job_type, payload))
           job == [Job(job_type, payload) EXCEPT !.id = lastrowid(tbl)]
       IN /\ jobs' = tbl
          /\ queue' = [queue EXCEPT ![job_type] = Append(@, job)]
          /\ calls' = PadCalls(calls, tbl)
          /\ allErr' = PadErr(allErr, tbl)
          /\ lastOp' = [op |-> "enqueue_job", id |-> job.id, retries |-> 0]
    /\ UNCHANGED <<phase, pc, held, cur, posts, lemmy_posts, comments, ignored, authVars, active, thread, relogin, sync>>

enqueue_job(job_type, payload) == EnqueueJobUpTo(job_type, payload, MaxJobs)

\* enqueue_job_direct: the row only, no worker queue; callable from any process.
EnqueueJobDirectUpTo(job_type, payload, maxJobs) ==
    /\ NumJobsOf(job_type) < maxJobs
    /\ LET tbl == save_job(jobs, Job(job_type, payload))
       IN /\ jobs' = tbl
          /\ calls' = PadCalls(calls, tbl)
          /\ allErr' = PadErr(allErr, tbl)
          /\ lastOp' = [op |-> "enqueue_job_direct", id |-> lastrowid(tbl), retries |-> 0]
    /\ UNCHANGED <<phase, queue, pc, held, cur, posts, lemmy_posts, comments, ignored, authVars, active, thread, relogin, sync>>

enqueue_job_direct(job_type, payload) == EnqueueJobDirectUpTo(job_type, payload, MaxJobs)

SaveBeforeTest(tbl, job) == save_job(tbl, job)

\* enqueue_job up to its raise: the test of self.workers comes first, so
\* neither Job(...) nor save_job runs.
RejectUnregistered(tbl, job) == tbl

\* enqueue_job for a type without a registered worker: ValueError.
enqueue_job_unregistered(job_type, payload) ==
    /\ cur = NoTask
    /\ job_type \notin DOMAIN queue
    /\ LET tbl == RejectUnregistered(jobs, Job(job_type, payload))
       IN /\ jobs' = tbl
          /\ calls' = PadCalls(calls, tbl)
          /\ allErr' = PadErr(allErr, tbl)
    /\ lastOp' = [op |-> "enqueue_job_rejected", id |-> 0, retries |-> 0,
                  job_type |-> job_type]
    /\ UNCHANGED <<phase, queue, pc, held, cur, posts, lemmy_posts, comments, ignored,
                   authVars, active, thread, relogin, sync>>

\* ------------------------------------------------------------------------
\* worker_manager.py: start_all and its polling loop
\* ------------------------------------------------------------------------
RECURSIVE DispatchOrDefault(_, _, _)
DispatchOrDefault(loaded, tbl, q) ==
    IF loaded = <<>> THEN [jobs |-> tbl, queue |-> q]
    ELSE LET job == Head(loaded)
             t == IF job.type \in DOMAIN q THEN job.type ELSE CHOOSE x \in DOMAIN q : TRUE
         IN DispatchOrDefault(Tail(loaded),
                              mark_job_status(tbl, job.id, "in_progress"),
                              [q EXCEPT ![t] = Append(@, job)])

RECURSIVE Dispatch(_, _, _)
\* for job in jobs: if job.type in self.workers: enqueue(job); mark in_progress
Dispatch(loaded, tbl, q) ==
    IF loaded = <<>> THEN [jobs |-> tbl, queue |-> q]
    ELSE LET job == Head(loaded)
         IN IF job.type \in DOMAIN q
            THEN Dispatch(Tail(loaded),
                          mark_job_status(tbl, job.id, "in_progress"),
                          [q EXCEPT ![job.type] = Append(@, job)])
            ELSE Dispatch(Tail(loaded), tbl, q)

\* One iteration of the loop, from load_queued_jobs to asyncio.sleep(5).
PollOnceUpTo(maxInMemory) ==
    LET d == Dispatch(load_queued_jobs(jobs), jobs, queue)
    IN /\ NumInMemory(d.queue) <= maxInMemory
       /\ jobs' = d.jobs
       /\ queue' = d.queue

PollOnce == PollOnceUpTo(MaxInMemory)

\* The pools in the order of their registration (background_worker.py), of
\* which DOMAIN q are registered: the first pool with a job on its queue.
RegistrationOrder == <<"mirror_post", "mirror_comment">>

FirstBusy(q) ==
    LET busy == {k \in DOMAIN RegistrationOrder :
                    RegistrationOrder[k] \in DOMAIN q /\ q[RegistrationOrder[k]] # <<>>}
    IN IF busy = {} THEN NoTask
       ELSE <<RegistrationOrder[CHOOSE k \in busy : \A m \in busy : k <= m], 1>>

\* start_all: create the worker tasks, then run the first iteration of the
\* loop before any worker task gets the event loop.  When start_all suspends
\* in asyncio.sleep(5) the worker tasks, created before, are the next to run,
\* in the order of their creation: those that find their queue empty suspend
\* in queue.get(), the first that finds a job takes it without suspending.
StartAllUpTo(maxInMemory) ==
    /\ phase = "init"
    /\ cur = NoTask
    /\ PollOnceUpTo(maxInMemory)
    /\ phase' = "up"
    /\ cur' = FirstBusy(queue')
    /\ lastOp' = Other
    /\ UNCHANGED <<pc, held, posts, lemmy_posts, calls, allErr, comments, ignored, authVars, active, thread, relogin, sync>>

start_all == StartAllUpTo(MaxInMemory)

\* A later iteration: the loop wakes from asyncio.sleep(5) and finds
\* _stop_event not set.
PollUpTo(maxInMemory) ==
    /\ phase = "up"
    /\ active
    /\ cur = NoTask
    /\ PollOnceUpTo(maxInMemory)
    /\ lastOp' = Other
    /\ UNCHANGED <<phase, pc, held, cur, posts, lemmy_posts, calls, allErr, comments, ignored, authVars, active, thread, relogin, sync>>

Poll == PollUpTo(MaxInMemory)

\* ------------------------------------------------------------------------
\* worker_base.py: _worker_loop of worker task w = <<type, index>>
\* ------------------------------------------------------------------------
\* job = await self.queue.get(): taken when the task is resumed on a free
\* loop, or without suspension when it already holds the loop and the queue
\* is not empty.  A job whose next_run is ahead suspends the task in
\* asyncio.sleep(next_run - now); a due job goes straight on: the row is
\* marked in_progress and the handler is entered.
Get(w) ==
    /\ phase = "up"
    /\ pc[w] = "get"
    /\ cur \in {NoTask, w}
    /\ queue[w[1]] # <<>>
    /\ LET job == Head(queue[w[1]])
       IN /\ held' = [held EXCEPT ![w] = job]
          /\ IF job.next_run > 0
             THEN /\ pc' = [pc EXCEPT ![w] = "sleep"]
                  /\ cur' = NoTask
                  /\ jobs' = jobs
             ELSE /\ pc' = [pc EXCEPT ![w] = "process"]
                  /\ cur' = w
                  /\ jobs' = WorkerWrite(w, jobs, mark_job_status(jobs, job.id, "in_progress"))
    /\ queue' = [queue EXCEPT ![w[1]] = Tail(@)]
    /\ lastOp' = Other
    /\ UNCHANGED <<phase, posts, lemmy_posts, calls, allErr, comments, ignored, authVars, active, thread, relogin, sync>>

\* The sleep is over and the loop is free: if job.id: mark_job_status(job.id,
\* "in_progress"), and the handler is entered.
Wake(w) ==
    /\ pc[w] = "sleep"
    /\ cur = NoTask
    /\ held[w].next_run = 0
    /\ jobs' = WorkerWrite(w, jobs, mark_job_status(jobs, held[w].id, "in_progress"))
    /\ pc' = [pc EXCEPT ![w] = "process"]
    /\ cur' = w
    /\ lastOp' = Other
    /\ UNCHANGED <<phase, queue, held, posts, lemmy_posts, calls, allErr, comments, ignored, authVars, active, thread, relogin, sync>>

\* await self.process(job) runs to its end without giving up the loop; on
\* return the job is marked done, on an exception _handle_failure runs; then
\* task_done() and, while self.active, the next queue.get(), which keeps the
\* loop while the queue is not empty; once active is False the task ends.
Finish(w, outcome) ==
    /\ pc[w] = "process"
    /\ outcome = "ok" => Len(lemmy_posts) < MaxPosts
    /\ LET job == held[w]
           h == mirror_post_to_lemmy(job.payload, outcome, jobs, posts, lemmy_posts)
           f == handle_failure(job, h.jobs, queue[w[1]])
       IN /\ posts' = h.posts
          /\ lemmy_posts' = h.dest
          /\ calls' = PadCalls([calls EXCEPT ![job.id] =
                                   IF Len(@) < HistLen THEN Append(@, outcome) ELSE @],
                               h.jobs)
          /\ allErr' = PadErr([allErr EXCEPT ![job.id] = @ /\ outcome = "error"], h.jobs)
          /\ IF h.raised
             THEN /\ jobs' = WorkerWrite(w, h.jobs, f.jobs)
                  /\ queue' = [queue EXCEPT ![w[1]] = f.queue]
                  /\ lastOp' = [op |-> "handle_failure", id |-> job.id,
                                retries |-> f.job.retries]
             ELSE /\ jobs' = WorkerWrite(w, h.jobs, mark_job_status(h.jobs, job.id, "done"))
                  /\ queue' = queue
                  /\ lastOp' = [op |-> "processed", id |-> job.id,
                                retries |-> job.retries]
    /\ pc' = [pc EXCEPT ![w] = IF active THEN "get" ELSE "exit"]
    /\ held' = [held EXCEPT ![w] = NoJob]
    /\ cur' = IF active /\ queue'[w[1]] # <<>> THEN w ELSE NoTask
    /\ UNCHANGED <<phase, comments, ignored, authVars, active, thread, relogin, sync>>

\* ------------------------------------------------------------------------
\* bridges/reddit_to_lemmy.py: RedditToLemmyBridge
\* ------------------------------------------------------------------------
\* _enqueue_comment_job: insert a mirror_comment job unless one exists whose
\* payload has reddit_post_id = the post.
bridge_enqueue_comment_job(tbl, reddit_id, lemmy_id) ==
    IF \E i \in DOMAIN tbl :
          tbl[i].type = "mirror_comment" /\ tbl[i].payload.reddit_post_id = reddit_id
    THEN tbl
    ELSE Append(tbl, PlainRow("mirror_comment",
                 [reddit_id |-> "", reddit_post_id |-> reddit_id,
                  lemmy_post_id |-> lemmy_id]))

\* mirror_post(reddit_id) when the fetch and the create succeed (otherwise it
\* raises and writes nothing): create the post, save the mapping under
\* ("reddit", reddit_id), enqueue the comment job.  No read of the cache.
bridge_mirror_post(reddit_id) ==
    /\ cur = NoTask
    /\ Len(lemmy_posts) < MaxPosts
    /\ LET lemmy_id == Len(lemmy_posts) + 1
           tbl == bridge_enqueue_comment_job(jobs, reddit_id, lemmy_id)
       IN /\ lemmy_posts' = Append(lemmy_posts, [reddit_id |-> reddit_id, via |-> "bridge"])
          /\ posts' = save_post(posts, "reddit", reddit_id, ToString(lemmy_id), Subreddit)
          /\ jobs' = tbl
          /\ calls' = PadCalls(calls, tbl)
          /\ allErr' = PadErr(allErr, tbl)
    /\ lastOp' = Other
    /\ UNCHANGED <<phase, queue, pc, held, cur, comments, ignored, authVars, active, thread, relogin, sync>>

\* ------------------------------------------------------------------------
\* Time and the environment
\* ------------------------------------------------------------------------
Pending == {j.next_run : j \in {k \in InMemory : k.next_run > 0}}

MinOf(S) == CHOOSE x \in S : \A y \in S : x <= y

Elapse(job, d) == [job EXCEPT !.next_run = IF @ > d THEN @ - d ELSE 0]

RECURSIVE ElapseSeq(_, _)
ElapseSeq(q, d) ==
    IF q = <<>> THEN <<>> ELSE <<Elapse(Head(q), d)>> \o ElapseSeq(Tail(q), d)

\* Time passes up to the next next_run that is still ahead.
Tick ==
    /\ Pending # {}
    /\ LET d == MinOf(Pending)
       IN /\ queue' = [t \in DOMAIN queue |-> ElapseSeq(queue[t], d)]
          /\ held' = [w \in DOMAIN held |-> Elapse(held[w], d)]
    /\ lastOp' = Other
    /\ UNCHANGED <<phase, jobs, pc, cur, posts, lemmy_posts, calls, allErr, comments, ignored, authVars, active, thread, relogin, sync>>

\* The process is killed and run again up to the construction of the manager:
\* everything in memory is gone, the databases and the destination stay.
Crash ==
    /\ phase' = "init"
    /\ queue' = [t \in DOMAIN queue |-> <<>>]
    /\ pc' = [w \in DOMAIN pc |-> "get"]
    /\ held' = [w \in DOMAIN held |-> NoJob]
    /\ cur' = NoTask
    /\ lastOp' = [op |-> "crash",
                  id |-> IF lastOp.op \in {"enqueue_job", "enqueue_job_direct"}
                         THEN lastOp.id ELSE 0,
                  retries |-> 0]
    /\ active' = TRUE
    /\ UNCHANGED <<jobs, posts, lemmy_posts, calls, allErr, comments, ignored, authVars,
                   thread, relogin, sync>>

Next ==
    \/ \E p \in PostPayloads : enqueue_job("mirror_post", p)
    \/ \E p \in PostPayloads : enqueue_job_direct("mirror_post", p)
    \/ \E s \in Sources : bridge_mirror_post(s)
    \/ start_all
    \/ Poll
    \/ \E w \in Workers : Get(w)
    \/ \E w \in Workers : Wake(w)
    \/ \E w \in Workers, o \in Outcomes : Finish(w, o)
    \/ Tick
    \/ Crash

Spec == Init /\ [][Next]_vars

SpecToken == Init /\ [][NextToken]_vars

SpecCreate == Init /\ [][NextCreate]_vars

\* ------------------------------------------------------------------------
\* Two jobs before the pool starts: up to MaxJobsPair rows are saved with
\* enqueue_job_direct or enqueue_job before start_all runs, then start_all
\* dispatches them and the handlers run, the source answering with the post or
\* reporting it missing.
\* ------------------------------------------------------------------------
NextPair ==
    \/ /\ phase = "init"
       /\ \E p \in PostPayloads : EnqueueJobDirectUpTo("mirror_post", p, MaxJobsPair)
    \/ /\ phase = "init"
       /\ \E p \in PostPayloads : EnqueueJobUpTo("mirror_post", p, MaxJobsPair)
    \/ start_all
    \/ Poll
    \/ \E w \in Workers : Get(w)
    \/ \E w \in Workers, o \in {"ok", "missing"} : Finish(w, o)

SpecPair == Init /\ [][NextPair]_vars

\* Callers of enqueue_job with registered and unregistered types, before and
\* while the workers run.
UnregisteredTypes == {"mirror_comment", "mirror_reddit_comment"}

NextEnqueue ==
    \/ \E p \in PostPayloads : EnqueueJobUpTo("mirror_post", p, MaxJobsPair)
    \/ \E t \in UnregisteredTypes, p \in PostPayloads : enqueue_job_unregistered(t, p)
    \/ start_all
    \/ Poll
    \/ \E w \in Workers : Get(w)
    \/ \E w \in Workers : Finish(w, "ok")

SpecEnqueue == Init /\ [][NextEnqueue]_vars

\* ------------------------------------------------------------------------
\* A malformed job: the payload names no post, so MirrorWorker._mirror_post
\* raises ValueError on every attempt.
\* ------------------------------------------------------------------------
NextMalformed ==
    \/ enqueue_job("mirror_post", NoPayload)
    \/ enqueue_job_direct("mirror_post", NoPayload)
    \/ start_all
    \/ Poll
    \/ \E w \in Workers : Get(w)
    \/ \E w \in Workers : Wake(w)
    \/ \E w \in Workers : Finish(w, "error")
    \/ Tick
    \/ Crash

SpecMalformed == Init /\ [][NextMalformed]_vars

\* ------------------------------------------------------------------------
\* A job that keeps failing while the manager keeps polling: no crash, and
\* room for MaxInMemoryDelay Job objects in memory.
\* ------------------------------------------------------------------------
NextDelay ==
    \/ \E p \in PostPayloads : enqueue_job_direct("mirror_post", p)
    \/ StartAllUpTo(MaxInMemoryDelay)
    \/ PollUpTo(MaxInMemoryDelay)
    \/ \E w \in Workers : Get(w)
    \/ \E w \in Workers : Wake(w)
    \/ \E w \in Workers : Finish(w, "error")
    \/ Tick

SpecDelay == Init /\ [][NextDelay]_vars

\* ------------------------------------------------------------------------
\* Shutdown.  stop_all runs as a task of the loop (the signal handler creates
\* it), so it runs while the loop is free: every worker task is then suspended
\* in queue.get() or in asyncio.sleep(), past the test of self.active at the
\* top of its loop, and the poll loop is suspended in asyncio.sleep(5).  It
\* clears active on every pool and sets _stop_event.  A job that the poll put
\* on a queue in the same pass of the event loop is still there: the getter
\* it woke runs after stop_all.
\* ------------------------------------------------------------------------
stop_all ==
    /\ phase = "up"
    /\ cur = NoTask
    /\ active
    /\ active' = FALSE
    /\ lastOp' = Other
    /\ UNCHANGED <<jobs, queue, pc, held, cur, phase, posts, lemmy_posts, calls, allErr,
                   comments, ignored, authVars, thread, relogin, sync>>

NextStop ==
    \/ \E p \in PostPayloads : enqueue_job_direct("mirror_post", p)
    \/ start_all
    \/ Poll
    \/ stop_all
    \/ \E w \in Workers : Get(w)
    \/ \E w \in Workers : Wake(w)
    \/ \E w \in Workers, o \in {"ok", "error"} : Finish(w, o)
    \/ Tick

SpecStop == Init /\ [][NextStop]_vars

\* ------------------------------------------------------------------------
\* Discovery and the ignored posts
\* ------------------------------------------------------------------------
\* DB.mark_post_ignored(reddit_post_id, reason): called by
\* mirror_new_reddit_replies (reddit_comment_sync.py 104) for a mirrored post
\* whose comments Reddit refuses with 403; the post joins the ignored set that
\* DB.get_ignored_posts returns.
mark_post_ignored(reddit_post_id) ==
    /\ cur = NoTask
    /\ \E k \in DOMAIN posts :
          posts[k].source_id = reddit_post_id \/ posts[k].source = reddit_post_id
    /\ reddit_post_id \notin ignored
    /\ ignored' = ignored \cup {reddit_post_id}
    /\ lastOp' = Other
    /\ UNCHANGED <<phase, jobs, queue, pc, held, cur, posts, comments, lemmy_posts, calls, allErr, authVars, active, thread, relogin, sync>>

\* auto_mirror.py mirror_once, for one post of the subreddit listing: unless a
\* mirror_post row exists whose payload has reddit_post_id = the post,
\* JobDB.enqueue inserts one (status queued, retries 0, the other columns at
\* their defaults).  Nothing else is consulted.
mirror_once(reddit_post_id) ==
    /\ cur = NoTask
    /\ NumPostJobs < MaxJobsPair
    /\ LET existing_post_job ==
               \E i \in DOMAIN jobs : /\ jobs[i].type = "mirror_post"
                                      /\ jobs[i].payload.reddit_post_id = reddit_post_id
           tbl == IF existing_post_job THEN jobs
                  ELSE Append(jobs, PlainRow("mirror_post",
                                [reddit_id |-> "", reddit_post_id |-> reddit_post_id,
                                 lemmy_post_id |-> 0]))
       IN /\ jobs' = tbl
          /\ calls' = PadCalls(calls, tbl)
          /\ allErr' = PadErr(allErr, tbl)
          /\ lastOp' = [op |-> "mirror_once",
                        id |-> IF existing_post_job THEN 0 ELSE Len(tbl), retries |-> 0]
    /\ UNCHANGED <<phase, queue, pc, held, cur, posts, comments, lemmy_posts, ignored, authVars, active, thread, relogin, sync>>

NextDiscovery ==
    \/ \E s \in Sources : mirror_once(s)
    \/ \E s \in Sources : mark_post_ignored(s)
    \/ \E s \in Sources : bridge_mirror_post(s)
    \/ \E p \in PostPayloads : EnqueueJobDirectUpTo("mirror_post", p, MaxJobsPair)
    \/ start_all
    \/ Poll
    \/ \E w \in Workers : Get(w)
    \/ \E w \in Workers, o \in {"ok", "missing"} : Finish(w, o)

SpecDiscovery == Init /\ [][NextDiscovery]_vars

\* ------------------------------------------------------------------------
\* Two pools.  background_worker.py registers a MirrorWorker for mirror_post
\* and one for mirror_comment; callers enqueue posts and comments with the
\* helpers of job_queue.py, and rows of a type without a worker arrive through
\* enqueue_job_direct, which tests no registration; the poller (mirror_once)
\* and the bridge insert their rows as well.  The handlers succeed.
\* ------------------------------------------------------------------------
RegisteredBoth == {"mirror_post", "mirror_comment"}
Unregistered == "mirror_reddit_comment"
CommentIds == {"c1"}

InitRouting == InitWith(RegisteredBoth)

\* job_queue.enqueue_post: payload {"reddit_id": id}.
enqueue_post(reddit_post_id) ==
    enqueue_job("mirror_post",
                [reddit_id |-> reddit_post_id, reddit_post_id |-> "", lemmy_post_id |-> 0])

\* job_queue.enqueue_comment: payload {"reddit_comment_id": id} plus
\* "reddit_id" and "lemmy_post_id" when they are given.  No store is read.
enqueue_comment(reddit_comment_id, reddit_post_id, lemmy_post_id) ==
    EnqueueJobUpTo("mirror_comment",
                   [reddit_comment_id |-> reddit_comment_id, reddit_id |-> reddit_post_id,
                    reddit_post_id |-> "", lemmy_post_id |-> lemmy_post_id],
                   MaxCommentJobs)

\* MirrorWorker._mirror_comment returns at once for a payload without a post
\* id or without lemmy_post_id; otherwise it awaits mirror_comment_to_lemmy.
Complete(payload) == RedditId(payload) # "" /\ payload.lemmy_post_id # 0

\* The handler of a mirror_comment job is suspended in an await of
\* mirror_comment_to_lemmy and the loop is free for the other tasks.
HandlerAwait(w) ==
    /\ pc[w] = "process"
    /\ cur = w
    /\ held[w].type = "mirror_comment"
    /\ Complete(held[w].payload)
    /\ cur' = NoTask
    /\ lastOp' = Other
    /\ UNCHANGED <<phase, jobs, queue, pc, held, posts, lemmy_posts, calls, allErr, comments,
                   ignored, authVars, active, thread, relogin, sync>>

\* The handler of a mirror_comment job returns: the job is marked done, then
\* task_done() and the next pass of the worker loop.
FinishComment(w) ==
    /\ pc[w] = "process"
    /\ cur \in {NoTask, w}
    /\ held[w].type = "mirror_comment"
    /\ jobs' = WorkerWrite(w, jobs, mark_job_status(jobs, held[w].id, "done"))
    /\ pc' = [pc EXCEPT ![w] = IF active THEN "get" ELSE "exit"]
    /\ held' = [held EXCEPT ![w] = NoJob]
    /\ cur' = IF active /\ queue[w[1]] # <<>> THEN w ELSE NoTask
    /\ lastOp' = [op |-> "processed", id |-> held[w].id, retries |-> held[w].retries]
    /\ UNCHANGED <<phase, queue, posts, lemmy_posts, calls, allErr, comments, ignored,
                   authVars, active, thread, relogin, sync>>

NextRouting ==
    \/ \E s \in Sources : enqueue_post(s)
    \/ \E c \in CommentIds, s \in Sources, l \in {0, 1} : enqueue_comment(c, s, l)
    \/ enqueue_job_direct(Unregistered, NoPayload)
    \/ \E s \in Sources : mirror_once(s)
    \/ \E s \in Sources : bridge_mirror_post(s)
    \/ StartAllUpTo(MaxInMemoryRouting)
    \/ PollUpTo(MaxInMemoryRouting)
    \/ \E w \in DOMAIN pc : Get(w)
    \/ \E w \in DOMAIN pc : held[w].type = "mirror_post" /\ cur \in {NoTask, w} /\ Finish(w, "ok")
    \/ \E w \in DOMAIN pc : HandlerAwait(w)
    \/ \E w \in DOMAIN pc : FinishComment(w)

SpecRouting == InitRouting /\ [][NextRouting]_vars

\* ------------------------------------------------------------------------
\* The pipeline left to run: no crash, no shutdown.  The event loop resumes
\* every ready task in turn, so a worker task that can take a step and the
\* poll loop, once its asyncio.sleep(5) is over, do take it; start_all is
\* called by main; time passes.
\* ------------------------------------------------------------------------
\* A step of worker task w; the handler raises for a copy of a job only
\* while the copy has failed fewer than MaxFailuresLive times.
WorkerStep(w) ==
    \/ Get(w)
    \/ Wake(w)
    \/ \E o \in Outcomes : (o = "error" => held[w].retries < MaxFailuresLive) /\ Finish(w, o)

\* Room for every job put on a queue before the start and for the copy that
\* start_all loads of each, so that the bound never keeps start_all from
\* running.
LiveInMemory == IF 2 * MaxJobsPair > MaxInMemory THEN 2 * MaxJobsPair ELSE MaxInMemory

NextLive ==
    \/ \E p \in PostPayloads : EnqueueJobUpTo("mirror_post", p, MaxJobsPair)
    \/ \E p \in PostPayloads : EnqueueJobDirectUpTo("mirror_post", p, MaxJobsPair)
    \/ StartAllUpTo(LiveInMemory)
    \/ Poll
    \/ \E w \in Workers : WorkerStep(w)
    \/ Tick

Fairness ==
    /\ WF_vars(StartAllUpTo(LiveInMemory))
    /\ WF_vars(Poll)
    /\ WF_vars(Tick)
    /\ WF_vars(\E w \in Workers : WorkerStep(w))

SpecLive == Init /\ [][NextLive]_vars /\ Fairness

\* ------------------------------------------------------------------------
\* The mapping cache on its own: callers of DB.save_post and DB.save_comment
\* with arguments from small sets.
\* ------------------------------------------------------------------------
DbSources == {"reddit"}
DbPostIds == {"p1", "p2"}
DbCommentIds == {"c1", "c2"}
DbLemmyIds == {"1", "2"}
DbParents == {<<"", "">>, <<"p1", "1">>}
\* The days argument of purge_old: its default and "everything".
PurgeDays == {30, 0}
DayStep == 31

pipeVars == <<phase, jobs, queue, pc, held, cur, lemmy_posts, calls, allErr, ignored, active, thread, relogin, sync>>

\* The calls so far that replaced a key's Lemmy id by another one.
Replaced == IF lastOp.op \in {"save_post", "save_comment"} THEN lastOp.replaced ELSE {}

DB_save_post(source, id, lemmy_id, community) ==
    /\ posts' = save_post(posts, source, id, lemmy_id, community)
    /\ lastOp' = [op |-> "save_post", id |-> 0, retries |-> 0,
                  source |-> source, source_id |-> id, lemmy_id |-> lemmy_id,
                  old |-> get_lemmy_post_id(posts, source, id),
                  replaced |-> IF get_lemmy_post_id(posts, source, id) \in {"", lemmy_id}
                               THEN Replaced ELSE Replaced \cup {"save_post"}]
    /\ UNCHANGED <<pipeVars, comments, authVars>>

DB_save_comment(source, id, lemmy_id, parent) ==
    /\ comments' = save_comment(comments, source, id, lemmy_id, parent[1], parent[2])
    /\ lastOp' = [op |-> "save_comment", id |-> 0, retries |-> 0,
                  source |-> source, source_id |-> id, lemmy_id |-> lemmy_id,
                  old |-> get_lemmy_comment_id(comments, source, id),
                  replaced |-> IF get_lemmy_comment_id(comments, source, id) \in {"", lemmy_id}
                               THEN Replaced ELSE Replaced \cup {"save_comment"}]
    /\ UNCHANGED <<pipeVars, posts, authVars>>

\* purge_old(days): both tables in one transaction; returns the rows deleted.
DB_purge_old(days) ==
    /\ posts' = PurgeTable(posts, days)
    /\ comments' = PurgeTable(comments, days)
    /\ lastOp' = [op |-> "purge_old", id |-> 0, retries |-> 0, days |-> days,
                  deleted |-> (Len(posts) - Len(PurgeTable(posts, days)))
                                + (Len(comments) - Len(PurgeTable(comments, days)))]
    /\ UNCHANGED <<pipeVars, authVars>>

\* Time passes while the cache is at rest.
DbDaysPass(d) ==
    /\ \A k \in DOMAIN posts : posts[k].last_synced + d <= MaxAgeDays
    /\ \A k \in DOMAIN comments : comments[k].last_synced + d <= MaxAgeDays
    /\ posts # <<>> \/ comments # <<>>
    /\ posts' = AgeTable(posts, d)
    /\ comments' = AgeTable(comments, d)
    /\ lastOp' = Other
    /\ UNCHANGED <<pipeVars, authVars>>

NextDB ==
    \/ \E src \in DbSources, id \in DbPostIds, l \in DbLemmyIds :
          DB_save_post(src, id, l, Subreddit)
    \/ \E src \in DbSources, id \in DbCommentIds, l \in DbLemmyIds, par \in DbParents :
          DB_save_comment(src, id, l, par)
    \/ \E days \in PurgeDays : DB_purge_old(days)
    \/ DbDaysPass(DayStep)

SpecDB == Init /\ [][NextDB]_vars

\* ------------------------------------------------------------------------
\* reddit_comment_sync.py: the passes of mirror_new_reddit_replies under main
\* ------------------------------------------------------------------------
\* The pass calls the mapping cache through the Reddit-keyed interface
\* (posts(reddit_id, lemmy_id), get_lemmy_comment_id(reddit_id),
\* save_comment(reddit_id=..., source="reddit"), the db_meta table).
BackfillFlag == "reddit_backfill_done"
SyncedPost == "p1"

\* str(n) and int(s) of the Lemmy ids, which are positive integers.
Decimal == <<"1", "2", "3", "4", "5", "6", "7", "8", "9">>
str(n) == Decimal[n]
int(s) == CHOOSE n \in DOMAIN Decimal : Decimal[n] = s

\* SELECT reddit_id, lemmy_id FROM posts
mirrored_posts(tbl) == [k \in DOMAIN tbl |-> <<tbl[k].source_id, tbl[k].lemmy_id>>]

reddit_get_lemmy_comment_id(tbl, reddit_comment_id) ==
    get_lemmy_comment_id(tbl, "reddit", reddit_comment_id)

reddit_get_lemmy_post_id(tbl, reddit_post_id) ==
    get_lemmy_post_id(tbl, "reddit", reddit_post_id)

\* The test at the top of the loop over the comments: a comment with a
\* mapping is skipped unless the pass is a backfill.
SkipDuplicate(tbl, force_backfill, reddit_comment_id) ==
    ~force_backfill /\ reddit_get_lemmy_comment_id(tbl, reddit_comment_id) # ""

\* The loop over submission.comments.list() of one mirrored post from its
\* k-th comment on: the duplicate test, the parent tests (a t3_ parent needs
\* the post's mapping, a t1_ parent the parent comment's), the POST to
\* /api/v3/comment answered by answers[k], and save_comment when it was ok.
RECURSIVE SyncComments(_, _, _, _, _, _)
SyncComments(k, tbl, post_tbl, dest, force_backfill, answers) ==
    IF k > Len(SubmissionComments) THEN [comments |-> tbl, lemmy_comments |-> dest]
    ELSE LET rc == SubmissionComments[k]
             parent_lemmy_id ==
                 IF rc.parent = "" THEN ""
                 ELSE reddit_get_lemmy_comment_id(tbl, rc.parent)
             skipped ==
                 \/ SkipDuplicate(tbl, force_backfill, rc.id)
                 \/ rc.parent = "" /\ reddit_get_lemmy_post_id(post_tbl, SyncedPost) = ""
                 \/ rc.parent # "" /\ parent_lemmy_id = ""
             lemmy_comment_id == Len(dest) + 1
         IN IF skipped \/ answers[k] # "ok"
            THEN SyncComments(k + 1, tbl, post_tbl, dest, force_backfill, answers)
            ELSE SyncComments(k + 1,
                   save_comment(tbl, "reddit", rc.id, str(lemmy_comment_id),
                                rc.parent, parent_lemmy_id),
                   post_tbl,
                   Append(dest, [source |-> rc.id,
                                 parent_id |-> IF parent_lemmy_id = "" THEN 0
                                               ELSE int(parent_lemmy_id)]),
                   force_backfill, answers)

\* mirror_new_reddit_replies(force_backfill): the mirrored posts are read;
\* the comments of the one that has any are gone through.
mirror_new_reddit_replies(force_backfill, answers) ==
    IF \E k \in DOMAIN mirrored_posts(posts) : mirrored_posts(posts)[k][1] = SyncedPost
    THEN SyncComments(1, comments, posts, sync.lemmy_comments, force_backfill, answers)
    ELSE [comments |-> comments, lemmy_comments |-> sync.lemmy_comments]

\* auto_backfill.is_first_run: posts without any comment, or no flag row.
is_first_run(flag_name) ==
    (Len(posts) > 0 /\ Len(comments) = 0) \/ flag_name \notin sync.db_meta

Answers == [DOMAIN SubmissionComments -> {"ok", "refused"}]

syncFrame ==
    <<phase, jobs, queue, pc, held, cur, posts, lemmy_posts, calls, allErr, ignored,
      authVars, active, thread, relogin>>

SyncRoom == Len(sync.lemmy_comments) + Len(SubmissionComments) <= MaxSyncComments

\* main up to its loop: on a first run the backfill pass.
sync_main(answers) ==
    /\ sync.pc = "start"
    /\ SyncRoom
    /\ IF is_first_run(BackfillFlag)
       THEN LET r == mirror_new_reddit_replies(TRUE, answers)
            IN /\ comments' = r.comments
               /\ sync' = [sync EXCEPT !.pc = "mark", !.lemmy_comments = r.lemmy_comments]
               /\ lastOp' = [op |-> "sync_pass", id |-> 0, retries |-> 0,
                             force_backfill |-> TRUE]
       ELSE /\ answers = [k \in DOMAIN SubmissionComments |-> "ok"]
            /\ sync' = [sync EXCEPT !.pc = "loop"]
            /\ lastOp' = [op |-> "sync_main", id |-> 0, retries |-> 0]
            /\ UNCHANGED comments
    /\ UNCHANGED syncFrame

\* mark_backfill_complete after the backfill pass: the INSERT into db_meta;
\* an exception of it is logged and swallowed.
sync_mark_backfill_complete(outcome) ==
    /\ sync.pc = "mark"
    /\ sync' = [sync EXCEPT !.pc = "loop",
                            !.db_meta = IF outcome = "ok" THEN @ \cup {BackfillFlag} ELSE @]
    /\ lastOp' = [op |-> "mark_backfill_complete", id |-> 0, retries |-> 0]
    /\ UNCHANGED <<syncFrame, comments>>

\* One iteration of main's loop: a pass without force_backfill.
sync_loop(answers) ==
    /\ sync.pc = "loop"
    /\ SyncRoom
    /\ LET r == mirror_new_reddit_replies(FALSE, answers)
       IN /\ comments' = r.comments
          /\ sync' = [sync EXCEPT !.lemmy_comments = r.lemmy_comments]
    /\ lastOp' = [op |-> "sync_pass", id |-> 0, retries |-> 0, force_backfill |-> FALSE]
    /\ UNCHANGED syncFrame

\* The process is stopped and started again; the database stays.
sync_restart ==
    /\ sync.pc # "start"
    /\ sync' = [sync EXCEPT !.pc = "start"]
    /\ lastOp' = [op |-> "sync_restart", id |-> 0, retries |-> 0]
    /\ UNCHANGED <<syncFrame, comments>>

\* The mirror_post handler records the mapping of the post.
sync_post_mirrored ==
    /\ reddit_get_lemmy_post_id(posts, SyncedPost) = ""
    /\ posts' = save_post(posts, "reddit", SyncedPost, "1", Subreddit)
    /\ lastOp' = [op |-> "save_post", id |-> 0, retries |-> 0]
    /\ UNCHANGED <<phase, jobs, queue, pc, held, cur, comments, lemmy_posts, calls, allErr,
                   ignored, authVars, active, thread, relogin, sync>>

NextSync ==
    \/ \E answers \in Answers : sync_main(answers)
    \/ \E outcome \in {"ok", "error"} : sync_mark_backfill_complete(outcome)
    \/ \E answers \in Answers : sync_loop(answers)
    \/ sync_restart
    \/ sync_post_mirrored

SpecSync == Init /\ [][NextSync]_vars

SpecThread == Init /\ [][NextThread]_vars

SpecLogin == Init /\ [][NextLogin]_vars

\* ========================================================================
\* Properties
\* ========================================================================
RECURSIVE CountIn(_, _)
\* How many Job objects of the sequence q carry the id.
CountIn(q, id) ==
    IF q = <<>> THEN 0
    ELSE (IF Head(q).id = id THEN 1 ELSE 0) + CountIn(Tail(q), id)

RECURSIVE SumCount(_, _, _)
SumCount(q, T, id) ==
    IF T = {} THEN 0
    ELSE LET t == CHOOSE x \in T : TRUE
         IN CountIn(q[t], id) + SumCount(q, T \ {t}, id)

\* Copies of job id on the worker queues and in running handlers.
Dispatched(id) ==
    SumCount(queue, Registered, id)
        + Cardinality({w \in Workers : pc[w] = "process" /\ held[w].id = id})

\* Any copy of job id in memory, a worker asleep on it included.
Holds(id) == \E j \in InMemory : j.id = id

\* C1: no job id is present more than once across the in-memory worker queues
\* and the handlers currently running (at-most-once dispatch).
C1_AtMostOnceDispatch == \A id \in DOMAIN jobs : Dispatched(id) <= 1

\* Posts the mirror_post handler created on the destination for source s.
CreatedByJobs(s) ==
    {i \in DOMAIN lemmy_posts :
        lemmy_posts[i].reddit_id = s /\ lemmy_posts[i].via = "job"}

\* C2: across any sequence of mirror_post job deliveries for one source post,
\* the destination create-post operation succeeds at most once.
C2_AtMostOnePostPerSource == \A s \in Sources : Cardinality(CreatedByJobs(s)) <= 1

\* C3: when a mirror_post job is processed for a source post that the mapping
\* store already maps, the job completes without a destination create.
C3_MappedPostNotCreatedAgain ==
    [][\A w \in Workers :
         (/\ pc[w] = "process"
          /\ pc'[w] = "get"
          /\ get_lemmy_post_id(posts, "reddit", RedditId(held[w].payload)) # "")
         => lemmy_posts' = lemmy_posts]_vars

\* The transitions of the job state machine.
ValidTransitions ==
    {<<"queued", "in_progress">>, <<"in_progress", "done">>,
     <<"in_progress", "failed">>, <<"in_progress", "skipped">>,
     <<"in_progress", "queued">>}

\* C4: every change of a job's persisted status is one of queued->in_progress,
\* in_progress->done, in_progress->failed, in_progress->skipped,
\* in_progress->queued; done, failed and skipped are never left.
C4_StatusStateMachine ==
    [][\A i \in DOMAIN jobs :
         \/ jobs'[i].status = jobs[i].status
         \/ <<jobs[i].status, jobs'[i].status>> \in ValidTransitions]_vars

\* The ids load_queued_jobs returns.
LoadedIds(tbl) == {load_queued_jobs(tbl)[k].id : k \in DOMAIN load_queued_jobs(tbl)}

\* C5: when enqueue_job or enqueue_job_direct has returned, the new row (the
\* newest of the table) is committed with status 'queued'; a crash right after
\* the return keeps it, and load_queued_jobs after the restart returns it.
C5_EnqueueDurable ==
    (\/ lastOp.op \in {"enqueue_job", "enqueue_job_direct"}
     \/ lastOp.op = "crash" /\ lastOp.id # 0)
    => /\ lastOp.id \in DOMAIN jobs
       /\ lastOp.id = Len(jobs)
       /\ jobs[lastOp.id].status = "queued"
       /\ lastOp.id \in LoadedIds(jobs)

\* C5 witness: the process crashed right after an enqueue returned and the row
\* is still there, queued.
C5_Witness ==
    /\ lastOp.op = "crash"
    /\ lastOp.id # 0
    /\ phase = "init"
    /\ jobs[lastOp.id].status = "queued"

\* C6: every job's retries counter is at most its max_retries, also right
\* after _handle_failure handled the failure that exhausts the retries.
C6_RetriesBounded ==
    /\ \A j \in InMemory : j.retries <= j.max_retries
    /\ \A i \in DOMAIN jobs : jobs[i].retries <= jobs[i].max_retries
    /\ lastOp.op = "handle_failure" => lastOp.retries <= jobs[lastOp.id].max_retries

\* C7: a job whose handler fails on every attempt keeps the status 'failed'
\* once it has it: it is not set back to queued or in_progress.
C7_FailedIsFinal ==
    [][\A i \in DOMAIN jobs :
         (jobs[i].status = "failed" /\ allErr[i]) => jobs'[i].status = "failed"]_vars

\* C8: a job whose handler failed on its first two attempts and succeeded on
\* the third (the third call, made for a Job that had failed twice, has just
\* returned and no copy of the job is left in memory) has status 'done' and
\* retries = 2 in its record.
C8_TwoFailuresThenDone ==
    \A i \in DOMAIN jobs :
        (/\ calls[i] = <<"error", "error", "ok">>
         /\ lastOp = [op |-> "processed", id |-> i, retries |-> 2]
         /\ ~Holds(i))
        => (jobs[i].status = "done" /\ jobs[i].retries = 2)

\* The pipeline is up and has nothing left to do: nothing in memory, no row
\* the poll loop would load.
Quiescent ==
    /\ phase = "up"
    /\ InMemory = {}
    /\ load_queued_jobs(jobs) = <<>>

\* C9: no job stays 'in_progress' while no worker holds it: after a restart
\* such a job is returned to 'queued' and dispatched again, so a pipeline that
\* has come to rest has no 'in_progress' row.
C9_InProgressReclaimed ==
    Quiescent => \A i \in DOMAIN jobs : jobs[i].status # "in_progress"

\* Rows of a mapping table that hold the key (source, id).
RowsFor(tbl, source, id) ==
    {k \in DOMAIN tbl : tbl[k].source = source /\ tbl[k].source_id = id}

\* C10: save_post (save_comment) called again for a key with another Lemmy id
\* leaves exactly one row for the key, and get_lemmy_post_id
\* (get_lemmy_comment_id) returns the id of the later call.
C10_UpsertLatest ==
    /\ lastOp.op = "save_post" =>
          /\ Cardinality(RowsFor(posts, lastOp.source, lastOp.source_id)) = 1
          /\ get_lemmy_post_id(posts, lastOp.source, lastOp.source_id) = lastOp.lemmy_id
    /\ lastOp.op = "save_comment" =>
          /\ Cardinality(RowsFor(comments, lastOp.source, lastOp.source_id)) = 1
          /\ get_lemmy_comment_id(comments, lastOp.source, lastOp.source_id) = lastOp.lemmy_id

\* C10 witness: both tables have had a key saved a second time with another
\* Lemmy id, the last call being such a second save_comment.
C10_Witness ==
    /\ lastOp.op = "save_comment"
    /\ lastOp.old \notin {"", lastOp.lemmy_id}
    /\ lastOp.replaced = {"save_post", "save_comment"}
    /\ Len(posts) = Cardinality(DbPostIds)
    /\ get_lemmy_comment_id(comments, lastOp.source, lastOp.source_id) = lastOp.lemmy_id

\* The mirror_post rows of the jobs table for source post s.
PostJobsFor(s) ==
    {i \in DOMAIN jobs : jobs[i].type = "mirror_post" /\ RedditId(jobs[i].payload) = s}

\* Rows of the posts table that name s as their source post, in either of the
\* two columns of the key.
MappingRows(tbl, s) ==
    {k \in DOMAIN tbl : tbl[k].source_id = s \/ tbl[k].source = s}

\* C11: two mirror_post jobs for the same source post were enqueued before
\* either ran; once the pool has processed both, each creating its post, the
\* posts table holds exactly one row for that source post.
C11_PairLeavesOneRow ==
    \A s \in Sources :
        (/\ Cardinality(PostJobsFor(s)) = 2
         /\ \A i \in PostJobsFor(s) : jobs[i].status = "done" /\ calls[i] = <<"ok">>)
        => Cardinality(MappingRows(posts, s)) = 1

\* C12: when a worker finishes a mirror_post job for source post s with a new
\* destination post d created and the job marked done, get_lemmy_post_id
\* ('reddit', s) returns d.
C12_MappingRecorded ==
    [][\A w \in Workers :
         (/\ pc[w] = "process" /\ pc'[w] = "get"
          /\ Len(lemmy_posts') = Len(lemmy_posts) + 1
          /\ jobs'[held[w].id].status = "done")
         => get_lemmy_post_id(posts', "reddit", RedditId(held[w].payload))
              = ToString(Len(lemmy_posts'))]_vars

\* C13: when the handler of a mirror_post job finds the source post missing,
\* the job's row is left with status 'skipped'.
C13_MissingIsSkipped ==
    [][\A w \in Workers :
         (/\ pc[w] = "process" /\ pc'[w] = "get"
          /\ Len(calls[held[w].id]) < HistLen
          /\ calls'[held[w].id] = Append(calls[held[w].id], "missing"))
         => jobs'[held[w].id].status = "skipped"]_vars

\* C14: discovery (mirror_once) enqueues no new job for a source post that has
\* been marked ignored.
C14_IgnoredNotEnqueued ==
    (lastOp.op = "mirror_once" /\ lastOp.id # 0)
    => RedditId(jobs[lastOp.id].payload) \notin ignored

\* C15: when the handler fails with a permanent error (ValueError for a
\* payload without a reddit id), the job is marked 'failed' after that attempt
\* and is not put back on the queue.
C15_PermanentErrorFailsAtOnce ==
    [][\A w \in Workers :
         (/\ pc[w] = "process" /\ pc'[w] = "get"
          /\ RedditId(held[w].payload) = "")
         => /\ jobs'[held[w].id].status = "failed"
            /\ queue'[w[1]] = queue[w[1]]]_vars

\* C16: two processes asked for a token while the cache held no unexpired
\* token, no login lying between their calls, and both have their token
\* within the 90 s of the login lock: exactly one of them sent a login request,
\* exactly one login was made, and both hold the unexpired cached token.
C16_OneLoginPerWindow ==
    (/\ \A p \in Procs : /\ caller[p].pc = "done"
                          /\ ~caller[p].startFresh
                          /\ caller[p].startLogins = caller[1].startLogins
     /\ lock_age = "recent")
    => /\ Cardinality({p \in Procs : caller[p].sent}) = 1
       /\ logins = caller[1].startLogins + 1
       /\ \A p \in Procs : caller[p].result = token_file.jwt

\* C17: a call with force=True returns a token from a login made after the
\* call began, never the token that was cached before.
C17_ForceGetsNewToken ==
    \A p \in Procs :
        (caller[p].pc = "done" /\ caller[p].force)
        => /\ caller[p].result > caller[p].startLogins
           /\ caller[p].result # caller[p].startJwt

\* C18 as stated: a call without force returns the cached token and sends no
\* login request when the cached token's expiry was ahead; otherwise the call
\* itself logs in and returns the token of that login.
C18_CachedOrOwnRefresh ==
    \A p \in Procs :
        (caller[p].pc = "done" /\ ~caller[p].force)
        => /\ caller[p].startFresh
              => (caller[p].result = caller[p].startJwt /\ ~caller[p].sent)
           /\ ~caller[p].startFresh
              => (caller[p].sent /\ caller[p].result > caller[p].startLogins)

\* C18 amended: a call without force returns the cached token and sends no
\* login request when the cached token's expiry was ahead; otherwise a call
\* that returns returns a token of a login made after the call began, its own
\* or that of a process it found holding the login lock.
C18_CachedOrRefreshed ==
    \A p \in Procs :
        (caller[p].pc = "done" /\ ~caller[p].force)
        => /\ caller[p].startFresh
              => (caller[p].result = caller[p].startJwt /\ ~caller[p].sent)
           /\ ~caller[p].startFresh
              => caller[p].result > caller[p].startLogins

\* C18 witness: one call found the cached token unexpired and returned it,
\* another found it expired and returned a newer one without logging in.
C18_Witness ==
    \E p, q \in Procs :
        /\ caller[p].pc = "done" /\ ~caller[p].force /\ caller[p].startFresh
        /\ caller[p].result = caller[p].startJwt
        /\ caller[q].pc = "done" /\ ~caller[q].force /\ ~caller[q].startFresh
        /\ caller[q].startJwt # 0 /\ ~caller[q].sent
        /\ caller[q].result > caller[q].startLogins

\* C19: once a create call has been answered 401, the call has made exactly
\* one token refresh and sends at most one more request, the retry; when the
\* retry fails as well the call is over with an exception.
C19_OneRefreshOneRetry ==
    http.first401 # 0
    => /\ http.refreshes = 1
       /\ Len(http.responses) <= http.first401 + 1
       /\ (Len(http.responses) = http.first401 + 1
             /\ http.responses[Len(http.responses)] # 200) => http.pc = "raised"

\* A job of the queue is due.
DueWaiting(t) == \E k \in DOMAIN queue[t] : queue[t][k].next_run = 0

\* The handlers of pool t that are running.
Running(t) == {w \in DOMAIN pc : w[1] = t /\ pc[w] = "process"}

\* C20: a job whose next_run is ahead never occupies a worker: whenever a
\* pool's queue holds a due job and fewer than `concurrency` handlers run, a
\* worker of the pool is free to take it, not asleep on a delayed job.
C20_DelayedJobHoldsNoWorker ==
    \A t \in Registered :
        (DueWaiting(t) /\ Cardinality(Running(t)) < CONCURRENCY)
        => \E w \in Workers : w[1] = t /\ pc[w] = "get"

\* C21: once a failed job has been rescheduled with next_run = failure time +
\* backoff, no worker enters the handler for that job while a rescheduled copy
\* of it still has its next_run ahead, whatever the poll loop does meanwhile.
C21_NoRunBeforeBackoff ==
    [][\A w \in Workers :
         (pc[w] # "process" /\ pc'[w] = "process")
         => \A j \in InMemory :
               (j.id = held'[w].id /\ j.retries > 0) => j.next_run = 0]_vars

\* C22: once stop_all has set the stop flag the dispatcher puts no further
\* job on a queue (a queue grows only by the re-queue of a handler that was
\* under way), and no worker takes a job from its queue and enters the handler.
C22_NoIntakeAfterStop ==
    [][~active =>
         /\ \A t \in Registered :
               Len(queue'[t]) > Len(queue[t])
               => \E w \in Workers : pc[w] = "process" /\ pc'[w] # "process"
         /\ \A w \in Workers : pc[w] = "get" => pc'[w] # "process"]_vars

\* C23: a mirror_comment job for a source post is on a worker's queue or in a
\* worker's hands only when the posts table holds a mapping for that post.
C23_CommentJobAfterMapping ==
    \A j \in InMemory :
        (j.type = "mirror_comment" /\ RedditId(j.payload) # "")
        => MappingRows(posts, RedditId(j.payload)) # {}

\* The rows of one job type for source post s.
JobsFor(job_type, s) ==
    {i \in DOMAIN jobs : jobs[i].type = job_type /\ RedditId(jobs[i].payload) = s}

\* C24: for each job type and source post at most one job row exists,
\* whichever of the enqueue paths created it.
C24_OneRowPerUnit ==
    \A s \in Sources, t \in RegisteredBoth : Cardinality(JobsFor(t, s)) <= 1

\* C25: every reply that is mirrored is created with parent_id equal to the
\* destination id mapped to its source parent comment; a reply whose parent has
\* no mapping is never posted as a top-level comment.
C25_RepliesKeepParent ==
    \A k \in DOMAIN thread.lemmy_comments :
        LET c == thread.lemmy_comments[k]
        IN parent_reddit_id(c.source) # ""
           => /\ c.parent_id # 0
              /\ c.parent_id = thread.per_post_map[parent_reddit_id(c.source)]

\* C30: when a login request is rate-limited the refresh retries it, and the
\* delay it waits before each retry grows exponentially with the attempt
\* number (the waits are increasing and in geometric progression) and is at
\* least the server's Retry-After hint when one is given.
C30_ExponentialAndHint ==
    /\ \A k \in DOMAIN relogin.waits :
          relogin.waits[k].wait >= relogin.waits[k].retry_after
    /\ \A k \in DOMAIN relogin.waits :
          k > 1 => relogin.waits[k].wait > relogin.waits[k - 1].wait
    /\ \A k \in DOMAIN relogin.waits :
          (k > 1 /\ k < Len(relogin.waits))
          => relogin.waits[k].wait * relogin.waits[k].wait
                = relogin.waits[k - 1].wait * relogin.waits[k + 1].wait

\* C26: while a job handler waits on a network call or on a rate-limit sleep
\* it does not hold the event loop, so that the poll loop and the other
\* workers can take steps: no worker that is inside its handler is the task
\* that holds the loop.
C26_HandlerWaitLeavesLoopFree ==
    \A w \in Workers : pc[w] = "process" => cur # w

\* C27: in every reachable state the number of handlers of one worker pool
\* that are executing at the same time is at most the pool's concurrency.
C27_BoundedConcurrency ==
    \A t \in DOMAIN queue : Cardinality(Running(t)) <= CONCURRENCY

\* A pool runs as many handlers at once as its concurrency allows.
C27_Witness ==
    \E t \in DOMAIN queue : Cardinality(Running(t)) = CONCURRENCY

\* The rows whose type has no registered worker pool.
Unrouted == {i \in DOMAIN jobs : jobs[i].type \notin DOMAIN queue}

\* C28: the dispatcher hands each queued job only to the pool registered for
\* the job's type (every Job on a pool's queue or in the hands of one of its
\* workers has the pool's type), and a queued job whose type has no registered
\* worker is handed to no pool and its persisted status stays 'queued'.
C28_RoutedByType ==
    /\ \A t \in DOMAIN queue : \A k \in DOMAIN queue[t] : queue[t][k].type = t
    /\ \A w \in DOMAIN pc : pc[w] \in {"sleep", "process"} => held[w].type = w[1]
    /\ \A i \in Unrouted : jobs[i].status = "queued" /\ \A j \in InMemory : j.id # i

\* C28 witness: the poll loop has passed over a row without a registered
\* worker and handed a later row, one that only the poll loop could load (the
\* comment job inserted by the bridge), to the mirror_comment pool.
C28_Witness ==
    /\ phase = "up"
    /\ \E i \in Unrouted, j \in InMemory :
          /\ i < j.id
          /\ j.type = "mirror_comment"
          /\ j.payload.reddit_id = ""
          /\ jobs[i].status = "queued"
          /\ held[<<"mirror_comment", 1>>] = j

C31_DelayHasJitter ==
    \A j \in InMemory :
        (/\ j.retries >= 1
         /\ lastOp = [op |-> "handle_failure", id |-> j.id, retries |-> j.retries])
        => \E d \in RetryDelays(j.retries) : d # j.next_run

C33_SuccessIsDone ==
    [][\A w \in Workers :
         (/\ pc[w] = "process" /\ pc'[w] # "process"
          /\ held[w].id # 0
          /\ lastOp'.op = "processed")
         => jobs'[held[w].id].status = "done"]_vars

\* C33 witness: after stop_all a worker has finished a job whose handler
\* returned, and the row is done.
C33_Witness ==
    /\ ~active
    /\ lastOp.op = "processed"
    /\ jobs[lastOp.id].status = "done"

\* The ids a row of the jobs table can have: the enqueued jobs and the
\* mirror_comment rows that handlers insert.
LiveRows == 1..(MaxJobsPair + MaxPosts)

\* Row i exists and is a job of a registered type.
Enqueued(i) == i \in DOMAIN jobs /\ jobs[i].type \in DOMAIN queue

\* The handler's return for row i was followed by mark_job_status(i, 'done').
SuccessIsRecorded(i) ==
    (/\ Enqueued(i)
     /\ lastOp.op = "processed" /\ lastOp.id = i
     /\ calls[i] # <<>> /\ calls[i][Len(calls[i])] = "ok")
        => jobs[i].status = "done"

TimesPosted(dest, reddit_comment_id) ==
    Cardinality({k \in DOMAIN dest : dest[k].source = reddit_comment_id})

C35_MappedNotPostedAgain ==
    [][\A c \in ThreadIds :
          reddit_get_lemmy_comment_id(comments, c) # ""
              => TimesPosted(sync'.lemmy_comments, c) = TimesPosted(sync.lemmy_comments, c)]_vars

\* C36: a mirror_post handler invocation ends after a bounded number of
\* destination requests, also when every create-post request is answered
\* with a rate limit: a create-post call that has sent MaxRequests requests,
\* all of them rate-limited, has returned or raised.
C36_BoundedRequests ==
    (/\ http.fn # "none"
     /\ Len(http.responses) = MaxRequests
     /\ \A k \in DOMAIN http.responses : http.responses[k] = 400)
        => http.pc \in {"returned", "raised"}

\* C37: after stop_all every worker loop exits and BaseWorker.start returns,
\* also when the queues were empty at the stop: once the pools are stopped
\* and no job is held, asleep or queued any more, every worker task has left
\* its loop.
C37_StoppedWorkersExit ==
    (/\ phase = "up"
     /\ ~active
     /\ \A t \in Registered : queue[t] = <<>>
     /\ \A w \in Workers : pc[w] \notin {"sleep", "process"})
        => \A w \in Workers : pc[w] = "exit"

\* C38: one call of utils.refresh_token sends at most 5 login requests; the
\* token file is written only in the step that received a 200 with a jwt;
\* every other pass of the loop, and the RuntimeError after the last one,
\* leaves the token file as it is, and the call raises only after five
\* requests none of which succeeded.
C38_RefreshBoundedAndClean ==
    [][\A p \in Procs :
          /\ caller'[p].requests <= 5
          /\ (caller'[p].pc = "raised" /\ caller[p].pc # "raised")
                => caller[p].requests = 5 /\ caller[p].last # 200
          /\ (caller[p].pc = "post" /\ caller'[p] # caller[p]
                  /\ token_file'.jwt # token_file.jwt)
                => /\ caller'[p].last = 200
                   /\ caller'[p].requests = caller[p].requests + 1
                   /\ caller'[p].result = token_file'.jwt
          /\ (caller[p].pc = "post" /\ caller'[p] # caller[p] /\ caller'[p].last # 200)
                => token_file' = token_file]_vars

\* A call has sent its five requests, the last answered 200 without a jwt,
\* and has raised; the token file still holds what another call wrote.
C38_Witness ==
    \E p \in Procs :
        /\ caller[p].pc = "raised"
        /\ caller[p].requests = 5
        /\ caller[p].last = OkWithoutJwt
        /\ token_file.jwt # 0

\* C39: enqueue_job with a job type that has no registered worker raises
\* ValueError and leaves the jobs table and every worker queue as they were;
\* a call that does save a row is one for a registered type.
C39_UnregisteredRejected ==
    [][/\ lastOp'.op = "enqueue_job_rejected" => jobs' = jobs /\ queue' = queue
       /\ (lastOp'.op = "enqueue_job" /\ Len(jobs') > Len(jobs))
             => jobs'[Len(jobs')].type \in DOMAIN queue]_vars

\* A call was rejected while the table holds a row and a queue holds a job.
C39_Witness ==
    /\ lastOp.op = "enqueue_job_rejected"
    /\ jobs # <<>>
    /\ \E t \in DOMAIN queue : queue[t] # <<>>

\* C40: save_post for one key changes no posts row of another key and no
\* comments row, save_comment for one key changes no comments row of another
\* key and no posts row, and both getters return for every other key what
\* they returned before the call.
RowsOfKey(tbl, source, source_id) ==
    {tbl[k] : k \in {n \in DOMAIN tbl : tbl[n].source = source /\ tbl[n].source_id = source_id}}

C40_SaveTouchesOneKey ==
    [][/\ lastOp'.op = "save_post" =>
            /\ comments' = comments
            /\ \A src \in DbSources, id \in DbPostIds :
                  <<src, id>> # <<lastOp'.source, lastOp'.source_id>> =>
                     /\ RowsOfKey(posts', src, id) = RowsOfKey(posts, src, id)
                     /\ get_lemmy_post_id(posts', src, id) = get_lemmy_post_id(posts, src, id)
       /\ lastOp'.op = "save_comment" =>
            /\ posts' = posts
            /\ \A src \in DbSources, id \in DbCommentIds :
                  <<src, id>> # <<lastOp'.source, lastOp'.source_id>> =>
                     /\ RowsOfKey(comments', src, id) = RowsOfKey(comments, src, id)
                     /\ get_lemmy_comment_id(comments', src, id)
                           = get_lemmy_comment_id(comments, src, id)]_vars

\* save_post has just replaced the Lemmy id of a key that was saved before,
\* while the posts table holds another key, saved earlier and a month old,
\* and the comments table holds a row.
C40_Witness ==
    /\ lastOp.op = "save_post"
    /\ lastOp.old \notin {"", lastOp.lemmy_id}
    /\ \E k \in DOMAIN posts :
          /\ posts[k].source_id # lastOp.source_id
          /\ posts[k].last_synced > 0
    /\ comments # <<>>

====
